---- MODULE Spec2Model ----
(***************************************************************************)
(* A model of the vrata reverse-tunnel client (package vrata):             *)
(*   tunnel.go   Tunnel (NewTunnel, Open, Close, URL), TunnelEvents        *)
(*   cluster.go  TunnelCluster (Start, Close, maintainConnections,         *)
(*               checkConnections) and TunnelConnection (connect,          *)
(*               handleConnection, proxyConnection, isActive, close)       *)
(*   api.go      ConnectWithContext                                        *)
(*                                                                         *)
(* One session is modelled: the caller constructs it, calls Open at most   *)
(* once, and calls Close and URL from concurrent goroutines.  Every        *)
(* goroutine of the package is a process of the model; a step is one       *)
(* stretch of code between two blocking points (a lock, a channel          *)
(* operation, a dial).                                                     *)
(***************************************************************************)
EXTENDS Integers, Sequences, FiniteSets, TLC

(* ---- bounds of the model ---- *)
\* largest max_conn_count the broker advertises
MaxConnAdvertised == 2
\* slots of a pool whose goroutines are scheduled; the goroutines of the
\* slots after these stay launched and never run
MaxLiveSlots == 2
\* connect goroutines of one slot that are launched and not yet running
\* (the counter saturates)
MaxPending == 2
\* proxyConnection goroutines of one slot that are alive at a time
MaxProxies == 2
\* goroutines that call Tunnel.Close, once each
MaxClosers == 2
\* calls of Tunnel.URL, one after the other
MaxURLCalls == 2
\* bytes that follow the empty line of a stream given to Transform
MaxBody == 2
\* places where the source of Transform splits its bytes into reads
MaxCuts == 2
\* header lines of a request given to Transform
MaxHeaders == 2
\* largest port number given to NewTunnel, as argument or in the options
MaxPort == 2
\* broker and local dials that fail, where the failures are counted
MaxDialFailures == 2

(* ---- constants of the program ---- *)
DefaultMaxConn == 10
URLChanSize == 1
ErrorChanSize == 10
CloseChanSize == 1
RequestChanSize == 100
\* bufio.MaxScanTokenSize, the buffer of the Scanner that Transform builds
MaxScanTokenSize == 65536

Closers == 1..MaxClosers

VARIABLES
  info,            \* TunnelInfo the broker answers the handshake with
  withParent,      \* the session was built by ConnectWithContext
  parentCancelled, \* the caller's context is cancelled
  ctxCancelled,    \* Tunnel.cancel() was called
  t_closed,        \* Tunnel.closed
  t_cluster,       \* Tunnel.cluster is not nil
  t_mutex,         \* Tunnel.mutex: 0, or the closer that holds it
  evURL,           \* TunnelEvents.URL
  evError,         \* TunnelEvents.Error
  evClose,         \* TunnelEvents.Close, the number of buffered events
  evRequest,       \* TunnelEvents.Request
  tc_closed,       \* TunnelCluster.closed
  tc_mutex,        \* TunnelCluster.mutex: "free", "close", "health"
  connections,     \* TunnelCluster.connections, with each slot's goroutines
  openPc, openRet, \* the call of Tunnel.Open and what it returned
  closePc,         \* the calls of Tunnel.Close
  closeIdx,        \* TunnelCluster.Close: the slot its loop is at
  startPc, startI, \* the goroutine running TunnelCluster.Start
  maintPc, maintIdx, \* the goroutine running maintainConnections
  urlPc, urlRets,  \* the calls of Tunnel.URL and what they returned
  panicked,        \* a goroutine dereferenced a nil connection
  failuresLeft,    \* dials and reads the network will still fail (-1: any
                   \* number)
  env,             \* the run's scenario: the Close and URL calls the caller
                   \* makes, the slots whose goroutines get to run, and
                   \* whether the local server accepts connections
  hist,            \* history: what was published and launched so far
  tx,              \* one call of HeaderHostTransformer.Transform: its
                   \* source, its bufio.Scanner, its sink and where it is
  nt               \* one call of NewTunnel: its arguments and its results

vars == <<info, withParent, parentCancelled, ctxCancelled, t_closed, t_cluster,
          t_mutex, evURL, evError, evClose, tc_closed, tc_mutex, connections,
          openPc, openRet, closePc, closeIdx, startPc, startI, maintPc,
          maintIdx, urlPc, urlRets, panicked, failuresLeft, env, hist, tx,
          evRequest, nt>>

(* ---- helpers ---- *)
Min(a, b) == IF a < b THEN a ELSE b


\* the network fails one more dial
FailuresAfter(n) == IF n < 0 THEN n ELSE n - 1

\* a session that keeps the context NewTunnel gave it
CtxDoneOwnOnly == ctxCancelled

\* <-t.ctx.Done() is ready
CtxDone == ctxCancelled \/ (withParent /\ parentCancelled)

\* a Start that takes only a negative count for a missing one
TargetSizeNegativeOnly(maxConn) == IF maxConn < 0 THEN DefaultMaxConn ELSE maxConn

\* Start: maxConn
TargetSize(maxConn) == IF maxConn <= 0 THEN DefaultMaxConn ELSE maxConn

\* &TunnelConnection{cluster: tc} and the goroutines of the slot:
\*   connects  connect goroutines launched and waiting for the slot lock
\*   mutex     "free", or where the connect that holds the lock is
\*   hpc       where the slot's handleConnection goroutine is
\*   pnew/prun proxyConnection goroutines launched / running
\*   eos       a copy on the broker socket of the slot has ended (end of
\*             stream or error)
\*   txs       the calls of Transform on the broker socket of the slot:
\*             0, 1, or 2 for any larger number
\*   txerr     a call of Transform on the broker socket of the slot has
\*             returned an I/O error
\*   stale     handleConnection goroutines of earlier connects of the slot
\*             that have not returned (at most one is followed)
NewSlot == [active |-> FALSE, conn |-> 0, mutex |-> "free", connects |-> 0,
            hpc |-> "none", pnew |-> 0, prun |-> 0, eos |-> FALSE, txs |-> 0,
            txerr |-> FALSE, stale |-> 0]

\* a close that clears the flag and keeps the socket
CloseSlotKeepsConn(s) == [s EXCEPT !.active = FALSE]

\* TunnelConnection.close, under the slot lock
CloseSlotBody(s) == IF s.active THEN [s EXCEPT !.active = FALSE, !.conn = 0] ELSE s

\* the handleConnection goroutines of slot s that have not returned
ProxyLoops(s) == (IF s.hpc = "none" THEN 0 ELSE 1) + s.stale

\* TunnelConnection.isActive
IsActive(s) == s.active

Slots == 1..Len(connections)
\* every index a slot of a pool may have
SlotIds == 1..(DefaultMaxConn + MaxConnAdvertised)
\* the slots whose goroutines run
LiveSlots == {i \in Slots : i <= env.live}

ActiveSlots == {i \in Slots : IsActive(connections[i])}

(* ---- HeaderHostTransformer.Transform (tunnel.go) ---- *)
\* Bytes are "CR", "LF", "h" (the name of a Host header, "Host:" in any
\* case), "v" (the host the request came with), "n" (h.host), "a" (any
\* other byte) and "A" (a run of MaxScanTokenSize bytes "a").
CRLF == <<"CR", "LF">>

\* a request line, a Host header and the empty line
RequestHead == <<"a">> \o CRLF \o <<"h", "v">> \o CRLF \o CRLF

\* the bytes that may follow the empty line
Bodies == UNION {[1..n -> {"a", "LF"}] : n \in 0..MaxBody}

\* a stream: its bytes, the places where the source ends a read, how the
\* source ends ("eof", or "err" for a read error), and whether it is a
\* request line, headers with a Host header, the empty line and a body
Stream(bytes, cuts, ends, wellformed, body) ==
  [bytes |-> bytes, cuts |-> cuts, ends |-> ends, wellformed |-> wellformed,
   body |-> body]

Streams ==
  {Stream(RequestHead \o b, c, e, TRUE, b) :
     b \in Bodies, e \in {"eof", "err"},
     c \in {x \in SUBSET (1..(Len(RequestHead) + MaxBody - 1)) : Cardinality(x) <= MaxCuts}}
  \cup {Stream(s, {}, e, FALSE, <<>>) :
          s \in {<<>>, <<"a">>, <<"a">> \o CRLF}, e \in {"eof", "err"}}

\* the lines ls, each followed by the line end eol
RECURSIVE Lines(_, _)
Lines(ls, eol) ==
  IF ls = <<>> THEN <<>> ELSE Head(ls) \o eol \o Lines(Tail(ls), eol)

\* a header line: any header, a Host header, a header with "Host:" past its
\* first byte, a header of MaxScanTokenSize bytes
HeaderLines == {<<"a">>, <<"h", "v">>, <<"a", "h">>, <<"A">>}

\* a request: its request line and header lines, the line end its sender
\* uses, whether the empty line and a body follow
Request(lines, eol, terminated, body) ==
  [lines |-> lines, eol |-> eol, terminated |-> terminated, body |-> body]

Requests ==
  {Request(<<first>> \o hs, eol, term, IF term THEN b ELSE <<>>) :
     first \in {<<"a">>, <<"A">>},
     hs \in UNION {[1..n -> HeaderLines] : n \in 0..MaxHeaders},
     eol \in {CRLF, <<"LF">>},
     term \in BOOLEAN,
     b \in {<<>>, <<"h", "v">> \o CRLF}}

\* the bytes of a request
RequestBytes(r) ==
  Lines(r.lines, r.eol) \o (IF r.terminated THEN r.eol ELSE <<>>) \o r.body

\* the requests as streams that come in one read or in two
HeaderStreams ==
  UNION {{Stream(RequestBytes(r), c, "eof", TRUE, r.body) :
            c \in {{}} \cup {{k} : k \in 1..(Len(RequestBytes(r)) - 1)}} :
         r \in Requests}

\* no call of Transform
TxIdle ==
  [input |-> Stream(<<>>, {}, "eof", FALSE, <<>>), pos |-> 0, buf |-> <<>>,
   atEOF |-> FALSE, out |-> <<>>, pc |-> "idle", ret |-> "none"]

\* reader.Read: the bytes up to the place where the source ends the read
NextCut(in, pos) ==
  LET ends == {c \in in.cuts \cup {Len(in.bytes)} : c > pos}
  IN  CHOOSE c \in ends : \A d \in ends : c <= d

ReadChunk(in, pos) == SubSeq(in.bytes, pos + 1, NextCut(in, pos))

\* bufio.ScanLines: the place of the first "\n" of the buffer, 0 if none
IndexLF(buf) ==
  IF \E k \in 1..Len(buf) : buf[k] = "LF"
  THEN CHOOSE k \in 1..Len(buf) : buf[k] = "LF" /\ \A j \in 1..(k - 1) : buf[j] # "LF"
  ELSE 0

\* bufio.ScanLines: dropCR
DropCR(s) == IF Len(s) > 0 /\ s[Len(s)] = "CR" THEN SubSeq(s, 1, Len(s) - 1) ELSE s

\* Scanner.Scan has a token: a line of the buffer, or at the end of the
\* source what is left of the buffer
HasToken(x) == IndexLF(x.buf) > 0 \/ (x.atEOF /\ x.buf # <<>>)

Token(x) ==
  IF IndexLF(x.buf) > 0 THEN DropCR(SubSeq(x.buf, 1, IndexLF(x.buf) - 1))
                        ELSE DropCR(x.buf)

AfterToken(x) ==
  IF IndexLF(x.buf) > 0 THEN SubSeq(x.buf, IndexLF(x.buf) + 1, Len(x.buf)) ELSE <<>>

\* the number of bytes of s
Size(s) ==
  Len(s) + (MaxScanTokenSize - 1) * Cardinality({k \in 1..Len(s) : s[k] = "A"})

\* Scanner.Scan: the buffer is full and holds no line: ErrTooLong
TooLong(x) ==
  LET line == IF IndexLF(x.buf) > 0 THEN SubSeq(x.buf, 1, IndexLF(x.buf) - 1)
                                    ELSE x.buf
  IN  Size(line) >= MaxScanTokenSize

\* Scanner.Err: nil at the end of the stream, the error of the read otherwise
ScannerErr(in) == IF in.ends = "eof" THEN "nil" ELSE "err"

\* if strings.HasPrefix(strings.ToLower(line), "host:") { "Host: " + h.host }
HeaderLine(line) ==
  IF Len(line) > 0 /\ line[1] = "h" THEN <<"h", "n">> ELSE line

\* Scanner.Scan finds no line in its buffer and reads from the source: the
\* read gives what the source has, or the end of the source
TxFill ==
  /\ tx.pc \in {"first", "headers"}
  /\ ~TooLong(tx)
  /\ ~HasToken(tx)
  /\ ~tx.atEOF
  /\ tx' = IF tx.pos < Len(tx.input.bytes)
           THEN [tx EXCEPT !.buf = @ \o ReadChunk(tx.input, tx.pos),
                           !.pos = NextCut(tx.input, tx.pos)]
           ELSE [tx EXCEPT !.atEOF = TRUE]
  /\ UNCHANGED <<info, withParent, parentCancelled, ctxCancelled, t_closed,
                 t_cluster, t_mutex, evURL, evError, evClose, tc_closed,
                 tc_mutex, connections, openPc, openRet, closePc, closeIdx,
                 startPc, startI, maintPc, maintIdx, urlPc, urlRets,
                 panicked, failuresLeft, env, hist, evRequest, nt>>

\* firstLine := scanner.Text(); fmt.Fprintf(writer, "%s\r\n", firstLine)
TxFirstLine ==
  /\ tx.pc = "first"
  /\ ~TooLong(tx)
  /\ HasToken(tx)
  /\ tx' = [tx EXCEPT !.out = @ \o Token(tx) \o CRLF, !.buf = AfterToken(tx),
                      !.pc = "headers"]
  /\ UNCHANGED <<info, withParent, parentCancelled, ctxCancelled, t_closed,
                 t_cluster, t_mutex, evURL, evError, evClose, tc_closed,
                 tc_mutex, connections, openPc, openRet, closePc, closeIdx,
                 startPc, startI, maintPc, maintIdx, urlPc, urlRets,
                 panicked, failuresLeft, env, hist, evRequest, nt>>

\* if !scanner.Scan() { return scanner.Err() }
TxFirstNone ==
  /\ tx.pc = "first"
  /\ ~TooLong(tx)
  /\ ~HasToken(tx)
  /\ tx.atEOF
  /\ tx' = [tx EXCEPT !.pc = "done", !.ret = ScannerErr(tx.input)]
  /\ UNCHANGED <<info, withParent, parentCancelled, ctxCancelled, t_closed,
                 t_cluster, t_mutex, evURL, evError, evClose, tc_closed,
                 tc_mutex, connections, openPc, openRet, closePc, closeIdx,
                 startPc, startI, maintPc, maintIdx, urlPc, urlRets,
                 panicked, failuresLeft, env, hist, evRequest, nt>>

\* for scanner.Scan() { ... }: the empty line ends the loop, a Host header
\* is written with h.host, any other line as it is
TxHeader ==
  /\ tx.pc = "headers"
  /\ ~TooLong(tx)
  /\ HasToken(tx)
  /\ tx' = IF Token(tx) = <<>>
           THEN [tx EXCEPT !.out = @ \o CRLF, !.buf = AfterToken(tx), !.pc = "copy"]
           ELSE [tx EXCEPT !.out = @ \o HeaderLine(Token(tx)) \o CRLF,
                           !.buf = AfterToken(tx)]
  /\ UNCHANGED <<info, withParent, parentCancelled, ctxCancelled, t_closed,
                 t_cluster, t_mutex, evURL, evError, evClose, tc_closed,
                 tc_mutex, connections, openPc, openRet, closePc, closeIdx,
                 startPc, startI, maintPc, maintIdx, urlPc, urlRets,
                 panicked, failuresLeft, env, hist, evRequest, nt>>

\* scanner.Scan() returns false: the loop is over
TxHeadersEnd ==
  /\ tx.pc = "headers"
  /\ ~TooLong(tx)
  /\ ~HasToken(tx)
  /\ tx.atEOF
  /\ tx' = [tx EXCEPT !.pc = "copy"]
  /\ UNCHANGED <<info, withParent, parentCancelled, ctxCancelled, t_closed,
                 t_cluster, t_mutex, evURL, evError, evClose, tc_closed,
                 tc_mutex, connections, openPc, openRet, closePc, closeIdx,
                 startPc, startI, maintPc, maintIdx, urlPc, urlRets,
                 panicked, failuresLeft, env, hist, evRequest, nt>>

\* scanner.Scan() returns false on a line that does not fit the buffer:
\* Transform returns bufio.ErrTooLong from the request line; in the header
\* loop it leaves the loop, and what the Scanner holds is dropped
TxTooLong ==
  /\ tx.pc \in {"first", "headers"}
  /\ TooLong(tx)
  /\ tx' = IF tx.pc = "first" THEN [tx EXCEPT !.pc = "done", !.ret = "toolong"]
                              ELSE [tx EXCEPT !.pc = "copy"]
  /\ UNCHANGED <<info, withParent, parentCancelled, ctxCancelled, t_closed,
                 t_cluster, t_mutex, evURL, evError, evClose, tc_closed,
                 tc_mutex, connections, openPc, openRet, closePc, closeIdx,
                 startPc, startI, maintPc, maintIdx, urlPc, urlRets,
                 panicked, failuresLeft, env, hist, evRequest, nt>>

\* io.Copy(writer, reader): one read of the source, written to the sink;
\* what the Scanner holds in its buffer is not part of it
TxCopy ==
  /\ tx.pc = "copy"
  /\ tx.pos < Len(tx.input.bytes)
  /\ tx' = [tx EXCEPT !.out = @ \o ReadChunk(tx.input, tx.pos),
                      !.pos = NextCut(tx.input, tx.pos)]
  /\ UNCHANGED <<info, withParent, parentCancelled, ctxCancelled, t_closed,
                 t_cluster, t_mutex, evURL, evError, evClose, tc_closed,
                 tc_mutex, connections, openPc, openRet, closePc, closeIdx,
                 startPc, startI, maintPc, maintIdx, urlPc, urlRets,
                 panicked, failuresLeft, env, hist, evRequest, nt>>

\* _, err := io.Copy(writer, reader); return err
TxCopyEnd ==
  /\ tx.pc = "copy"
  /\ tx.pos = Len(tx.input.bytes)
  /\ tx' = [tx EXCEPT !.pc = "done", !.ret = ScannerErr(tx.input)]
  /\ UNCHANGED <<info, withParent, parentCancelled, ctxCancelled, t_closed,
                 t_cluster, t_mutex, evURL, evError, evClose, tc_closed,
                 tc_mutex, connections, openPc, openRet, closePc, closeIdx,
                 startPc, startI, maintPc, maintIdx, urlPc, urlRets,
                 panicked, failuresLeft, env, hist, evRequest, nt>>

(* ---- NewTunnel: the options of the session (tunnel.go) ---- *)
\* *TunnelOptions: nil, or a TunnelOptions
Options(present, port, host, subdomain, localHost, localHTTPS) ==
  [present |-> present, Port |-> port, Host |-> host, Subdomain |-> subdomain,
   LocalHost |-> localHost, LocalHTTPS |-> localHTTPS]

\* nil
NilOptions == Options(FALSE, 0, "", "", "", FALSE)

\* &TunnelOptions{}
ZeroOptions == Options(TRUE, 0, "", "", "", FALSE)

\* the arguments NewTunnel is called with
OptionsGiven ==
  {NilOptions} \cup
  {Options(TRUE, p, h, s, l, tls) :
     p \in 0..MaxPort, h \in {"", "http://broker"}, s \in {"", "sub"},
     l \in {"", "127.0.0.1"}, tls \in BOOLEAN}

\* a NewTunnel that keeps the port of the options
NewTunnelKeepsPort(port, options) ==
  LET o == IF options.present THEN options ELSE ZeroOptions
  IN  [o EXCEPT !.Host = IF @ = "" THEN "https://localtunnel.me" ELSE @,
                !.LocalHost = IF @ = "" THEN "localhost" ELSE @]

\* if options == nil { options = &TunnelOptions{} }; options.Port = port;
\* the defaults of Host and LocalHost
NewTunnelOptions(port, options) ==
  LET o == IF options.present THEN options ELSE ZeroOptions
  IN  [o EXCEPT !.Port = port,
                !.Host = IF @ = "" THEN "https://localtunnel.me" ELSE @,
                !.LocalHost = IF @ = "" THEN "localhost" ELSE @]

\* no call of NewTunnel
NtIdle == [port |-> 0, given |-> NilOptions, pc |-> "idle", options |-> NilOptions,
           err |-> "none"]

\* return &Tunnel{options: options, ...}, nil
NtNewTunnel ==
  /\ nt.pc = "call"
  /\ nt' = [nt EXCEPT !.pc = "done", !.err = "nil",
                      !.options = NewTunnelOptions(nt.port, nt.given)]
  /\ UNCHANGED <<info, withParent, parentCancelled, ctxCancelled, t_closed,
                 t_cluster, t_mutex, evURL, evError, evClose, tc_closed,
                 tc_mutex, connections, openPc, openRet, closePc, closeIdx,
                 startPc, startI, maintPc, maintIdx, urlPc, urlRets,
                 panicked, failuresLeft, env, hist, tx, evRequest>>

(* ---- construction ---- *)
\* NewTunnel / ConnectWithContext
SessionInit(worlds) ==
  /\ \E w \in worlds :
       /\ info = [URL |-> w.URL, MaxConn |-> w.MaxConn]
       /\ withParent = w.parent
       /\ failuresLeft = w.failures
       /\ env = [closes |-> w.closes, urls |-> w.urls, live |-> w.live,
                 localUp |-> w.localUp, pending |-> w.pending,
                 proxies |-> w.proxies]
  /\ parentCancelled = FALSE
  /\ ctxCancelled = FALSE
  /\ t_closed = FALSE
  /\ t_cluster = FALSE
  /\ t_mutex = 0
  /\ evURL = <<>>
  /\ evError = <<>>
  /\ evClose = 0
  /\ evRequest = <<>>
  /\ tc_closed = FALSE
  /\ tc_mutex = "free"
  /\ connections = <<>>
  /\ openPc = "idle"
  /\ openRet = "none"
  /\ closePc = [c \in Closers |-> "idle"]
  /\ closeIdx = 0
  /\ startPc = "none"
  /\ startI = 0
  /\ maintPc = "none"
  /\ maintIdx = 0
  /\ urlPc = "idle"
  /\ urlRets = <<>>
  /\ panicked = FALSE
  /\ hist = [closed |-> 0, url |-> 0, fatal |-> 0, launched |-> 0,
             order |-> <<>>, afterOpen |-> {}, lateOpen |-> FALSE,
             skipped |-> FALSE]

\* a session, and no call of Transform
InitWith(worlds) == SessionInit(worlds) /\ tx = TxIdle /\ nt = NtIdle

\* a scenario: the broker's answer (url, maxConn), a session built with a
\* parent context or not, the dials that fail, the caller's Close and URL
\* calls, the slots that run, the state of the local server, the connect
\* and proxyConnection goroutines a slot may have at a time
World(url, maxConn, parent, failures, closes, urls, live, localUp, pending, proxies) ==
  [URL |-> url, MaxConn |-> maxConn, parent |-> parent, failures |-> failures,
   closes |-> closes, urls |-> urls, live |-> live, localUp |-> localUp,
   pending |-> pending, proxies |-> proxies]

\* the scenarios of Spec: each starts from the smallest session (one slot,
\* one Close, no parent context, the local server down) and takes one
\* dimension to its bound
SpecWorlds ==
  {World("valid", 1, FALSE, 1, MaxClosers, 0, 1, FALSE, 1, 1),
   World("valid", 1, FALSE, 1, 1, MaxURLCalls, 1, FALSE, 1, 1),
   World("valid", MaxConnAdvertised, FALSE, 1, 1, 0, MaxLiveSlots, FALSE, 1, 1),
   World("valid", 1, TRUE, 1, 1, 0, 1, FALSE, 1, 1),
   World("valid", 1, FALSE, 1, 1, 0, 1, TRUE, 1, MaxProxies),
   World("valid", 1, FALSE, MaxDialFailures, 1, 0, 1, FALSE, 1, 1),
   World("valid", 1, FALSE, 1, 1, 0, 1, FALSE, MaxPending, 1)}
  \cup {World("valid", m, FALSE, 1, 1, 0, 1, FALSE, 1, 1) : m \in {-1, 0}}
  \cup {World(u, 1, FALSE, 1, MaxClosers, MaxURLCalls, 1, FALSE, 1, 1) :
           u \in {"unparsable", "nohost"}}

Init == InitWith(SpecWorlds)

(* ---- Tunnel.Open (tunnel.go) ---- *)
\* an Open that goes on after a failed handshake
OpenHandshakeIgnored ==
  /\ ~panicked
  /\ openPc = "idle"
  /\ \E e \in {"transport", "status", "decode"} : openRet' = e
  /\ t_cluster' = TRUE
  /\ startPc' = "parse"
  /\ openPc' = "done"
  /\ UNCHANGED <<info, withParent, parentCancelled, ctxCancelled, t_closed,
                 t_mutex, evURL, evError, evClose, tc_closed, tc_mutex,
                 connections, closePc, closeIdx, startI, maintPc, maintIdx,
                 urlPc, urlRets, panicked, failuresLeft, env, hist, tx,
                 evRequest, nt>>

\* requestTunnel fails: a transport error or timeout, a status that is not
\* 200, or a body that does not decode; Open returns the wrapped error
OpenHandshakeFails ==
  /\ ~panicked
  /\ openPc = "idle"
  /\ \E e \in {"transport", "status", "decode"} : openRet' = e
  /\ openPc' = "done"
  /\ UNCHANGED <<info, withParent, parentCancelled, ctxCancelled, t_closed,
                 t_cluster, t_mutex, evURL, evError, evClose, tc_closed,
                 tc_mutex, connections, closePc, closeIdx, startPc, startI,
                 maintPc, maintIdx, urlPc, urlRets, panicked, failuresLeft,
                 env, hist, tx, evRequest, nt>>

\* requestTunnel succeeds: t.info and t.cluster are set and the goroutine
\* that runs cluster.Start is launched
OpenRegister ==
  /\ ~panicked
  /\ openPc = "idle"
  /\ t_cluster' = TRUE
  /\ startPc' = "parse"
  /\ openPc' = "send"
  /\ hist' = [hist EXCEPT !.lateOpen = t_closed]
  /\ UNCHANGED <<info, withParent, parentCancelled, ctxCancelled, t_closed,
                 t_mutex, evURL, evError, evClose, tc_closed, tc_mutex,
                 connections, openRet, closePc, closeIdx, startI, maintPc,
                 maintIdx, urlPc, urlRets, panicked, failuresLeft, env, tx,
                 evRequest, nt>>

\* select { case t.events.URL <- t.info.URL: ... }
OpenSendURL ==
  /\ ~panicked
  /\ openPc = "send"
  /\ Len(evURL) < URLChanSize
  /\ evURL' = Append(evURL, info.URL)
  /\ openRet' = "nil"
  /\ openPc' = "done"
  /\ hist' = [hist EXCEPT !.url = @ + 1,
                          !.order = IF "url" \in {@[k] : k \in 1..Len(@)}
                                    THEN @ ELSE Append(@, "url")]
  /\ UNCHANGED <<info, withParent, parentCancelled, ctxCancelled, t_closed,
                 t_cluster, t_mutex, evError, evClose, tc_closed, tc_mutex,
                 connections, closePc, closeIdx, startPc, startI, maintPc,
                 maintIdx, urlPc, urlRets, panicked, failuresLeft, env, tx,
                 evRequest, nt>>

\* select { ... case <-t.ctx.Done(): return t.ctx.Err() }
OpenCtxDone ==
  /\ ~panicked
  /\ openPc = "send"
  /\ CtxDone
  /\ openRet' = "ctx"
  /\ openPc' = "done"
  /\ UNCHANGED <<info, withParent, parentCancelled, ctxCancelled, t_closed,
                 t_cluster, t_mutex, evURL, evError, evClose, tc_closed,
                 tc_mutex, connections, closePc, closeIdx, startPc, startI,
                 maintPc, maintIdx, urlPc, urlRets, panicked, failuresLeft,
                 env, hist, tx, evRequest, nt>>

(* ---- the caller's context (api.go, ConnectWithContext) ---- *)
\* the token fires: remember when, relative to the other outcomes of URL
FireOrder(h) == IF "ctx" \in {h.order[k] : k \in 1..Len(h.order)}
                THEN h ELSE [h EXCEPT !.order = Append(@, "ctx")]

ParentCancel ==
  /\ ~panicked
  /\ withParent
  /\ ~parentCancelled
  /\ parentCancelled' = TRUE
  /\ hist' = FireOrder(hist)
  /\ UNCHANGED <<info, withParent, ctxCancelled, t_closed, t_cluster,
                 t_mutex, evURL, evError, evClose, tc_closed, tc_mutex,
                 connections, openPc, openRet, closePc, closeIdx, startPc,
                 startI, maintPc, maintIdx, urlPc, urlRets, panicked,
                 failuresLeft, env, tx, evRequest, nt>>

(* ---- TunnelCluster.Start (cluster.go), run by Open's goroutine ---- *)
\* url.Parse fails or the URL has no host: Start returns the error
StartInvalidURL ==
  /\ ~panicked
  /\ startPc = "parse"
  /\ info.URL # "valid"
  /\ startPc' = "report"
  /\ UNCHANGED <<info, withParent, parentCancelled, ctxCancelled, t_closed,
                 t_cluster, t_mutex, evURL, evError, evClose, tc_closed,
                 tc_mutex, connections, openPc, openRet, closePc, closeIdx,
                 startI, maintPc, maintIdx, urlPc, urlRets, panicked,
                 failuresLeft, env, hist, tx, evRequest, nt>>

\* a Start that does not look at the parsed URL
StartParsedUnchecked ==
  /\ ~panicked
  /\ startPc = "parse"
  /\ startPc' = "loop"
  /\ startI' = 0
  /\ UNCHANGED <<info, withParent, parentCancelled, ctxCancelled, t_closed,
                 t_cluster, t_mutex, evURL, evError, evClose, tc_closed,
                 tc_mutex, connections, openPc, openRet, closePc, closeIdx,
                 maintPc, maintIdx, urlPc, urlRets, panicked, failuresLeft,
                 env, hist, tx, evRequest, nt>>

StartParsed ==
  /\ ~panicked
  /\ startPc = "parse"
  /\ info.URL = "valid"
  /\ startPc' = "loop"
  /\ startI' = 0
  /\ UNCHANGED <<info, withParent, parentCancelled, ctxCancelled, t_closed,
                 t_cluster, t_mutex, evURL, evError, evClose, tc_closed,
                 tc_mutex, connections, openPc, openRet, closePc, closeIdx,
                 maintPc, maintIdx, urlPc, urlRets, panicked, failuresLeft,
                 env, hist, tx, evRequest, nt>>

\* one turn of the loop: append the slot under the pool lock, then
\* go conn.connect(...)
StartSlot(s) == [s EXCEPT !.connects = 1]

\* an append that does not take tc.mutex
StartAppendUnlocked ==
  /\ ~panicked
  /\ startPc = "loop"
  /\ startI < TargetSize(info.MaxConn)
  /\ connections' = Append(connections, StartSlot(NewSlot))
  /\ startI' = startI + 1
  /\ hist' = [hist EXCEPT !.launched = @ + 1]
  /\ UNCHANGED <<info, withParent, parentCancelled, ctxCancelled, t_closed,
                 t_cluster, t_mutex, evURL, evError, evClose, tc_closed,
                 tc_mutex, openPc, openRet, closePc, closeIdx, startPc,
                 maintPc, maintIdx, urlPc, urlRets, panicked, failuresLeft,
                 env, tx, evRequest, nt>>

StartAppend ==
  /\ ~panicked
  /\ startPc = "loop"
  /\ startI < TargetSize(info.MaxConn)
  /\ tc_mutex = "free"
  /\ connections' = Append(connections, StartSlot(NewSlot))
  /\ startI' = startI + 1
  /\ hist' = [hist EXCEPT !.launched = @ + 1]
  /\ UNCHANGED <<info, withParent, parentCancelled, ctxCancelled, t_closed,
                 t_cluster, t_mutex, evURL, evError, evClose, tc_closed,
                 tc_mutex, openPc, openRet, closePc, closeIdx, startPc,
                 maintPc, maintIdx, urlPc, urlRets, panicked, failuresLeft,
                 env, tx, evRequest, nt>>

\* go tc.maintainConnections(...); return nil
StartMaintain ==
  /\ ~panicked
  /\ startPc = "loop"
  /\ startI = TargetSize(info.MaxConn)
  /\ startPc' = "done"
  /\ maintPc' = "wait"
  /\ UNCHANGED <<info, withParent, parentCancelled, ctxCancelled, t_closed,
                 t_cluster, t_mutex, evURL, evError, evClose, tc_closed,
                 tc_mutex, connections, openPc, openRet, closePc, closeIdx,
                 startI, maintIdx, urlPc, urlRets, panicked, failuresLeft,
                 env, hist, tx, evRequest, nt>>

\* Open's goroutine: select { case t.events.Error <- err: ... }
StartReportError ==
  /\ ~panicked
  /\ startPc = "report"
  /\ Len(evError) < ErrorChanSize
  /\ evError' = Append(evError, "InvalidEndpoint")
  /\ startPc' = "failed"
  /\ hist' = [hist EXCEPT !.fatal = @ + 1,
                          !.order = IF "fatal" \in {@[k] : k \in 1..Len(@)}
                                    THEN @ ELSE Append(@, "fatal")]
  /\ UNCHANGED <<info, withParent, parentCancelled, ctxCancelled, t_closed,
                 t_cluster, t_mutex, evURL, evClose, tc_closed, tc_mutex,
                 connections, openPc, openRet, closePc, closeIdx, startI,
                 maintPc, maintIdx, urlPc, urlRets, panicked, failuresLeft,
                 env, tx, evRequest, nt>>

\* Open's goroutine: select { ... case <-t.ctx.Done(): }
StartReportCtxDone ==
  /\ ~panicked
  /\ startPc = "report"
  /\ CtxDone
  /\ startPc' = "failed"
  /\ UNCHANGED <<info, withParent, parentCancelled, ctxCancelled, t_closed,
                 t_cluster, t_mutex, evURL, evError, evClose, tc_closed,
                 tc_mutex, connections, openPc, openRet, closePc, closeIdx,
                 startI, maintPc, maintIdx, urlPc, urlRets, panicked,
                 failuresLeft, env, hist, tx, evRequest, nt>>

(* ---- Tunnel.Close (tunnel.go) and TunnelCluster.Close (cluster.go) ---- *)
\* t.cancel(): the token is fired, whatever it was
Cancel(fired) == TRUE

\* a goroutine calls Close and waits for t.mutex
CloseCall(c) ==
  /\ ~panicked
  /\ closePc[c] = "idle"
  /\ c <= env.closes
  /\ closePc' = [closePc EXCEPT ![c] = "lock"]
  /\ hist' = IF openRet = "nil"
             THEN [hist EXCEPT !.afterOpen = @ \cup {c}] ELSE hist
  /\ UNCHANGED <<info, withParent, parentCancelled, ctxCancelled, t_closed,
                 t_cluster, t_mutex, evURL, evError, evClose, tc_closed,
                 tc_mutex, connections, openPc, openRet, closeIdx, startPc,
                 startI, maintPc, maintIdx, urlPc, urlRets, panicked,
                 failuresLeft, env, tx, evRequest, nt>>

\* a Close that does not look at t.closed
TunnelCloseBeginUnchecked(c) ==
  /\ ~panicked
  /\ closePc[c] = "lock"
  /\ t_mutex = 0
  /\ t_mutex' = c
  /\ t_closed' = TRUE
  /\ ctxCancelled' = TRUE
  /\ hist' = FireOrder(hist)
  /\ closePc' = [closePc EXCEPT ![c] = "publish"]
  /\ UNCHANGED <<info, withParent, parentCancelled, t_cluster, evURL,
                 evError, evClose, tc_closed, tc_mutex, connections, openPc,
                 openRet, closeIdx, startPc, startI, maintPc, maintIdx,
                 urlPc, urlRets, panicked, failuresLeft, env, tx, evRequest,
                 nt>>

\* t.mutex.Lock(); if t.closed { return nil }; t.closed = true; t.cancel();
\* if t.cluster != nil { ... }
TunnelCloseBegin(c) ==
  /\ ~panicked
  /\ closePc[c] = "lock"
  /\ t_mutex = 0
  /\ IF t_closed
     THEN /\ closePc' = [closePc EXCEPT ![c] = "done"]
          /\ UNCHANGED <<t_mutex, t_closed, ctxCancelled, hist>>
     ELSE /\ t_mutex' = c
          /\ t_closed' = TRUE
          /\ ctxCancelled' = Cancel(ctxCancelled)
          /\ hist' = IF Cancel(ctxCancelled) THEN FireOrder(hist) ELSE hist
          /\ closePc' = [closePc EXCEPT ![c] = IF t_cluster THEN "cluster" ELSE "publish"]
  /\ UNCHANGED <<info, withParent, parentCancelled, t_cluster, evURL,
                 evError, evClose, tc_closed, tc_mutex, connections, openPc,
                 openRet, closeIdx, startPc, startI, maintPc, maintIdx,
                 urlPc, urlRets, panicked, failuresLeft, env, tx, evRequest,
                 nt>>

\* TunnelCluster.Close returns: to Tunnel.Close, which holds t.mutex, or to
\* a caller that called it on the pool itself
CloseReturn(c) == IF t_mutex = c THEN "publish" ELSE "done"

\* a TunnelCluster.Close that does not look at tc.closed
ClusterCloseBeginUnchecked(c) ==
  /\ ~panicked
  /\ closePc[c] = "cluster"
  /\ tc_mutex = "free"
  /\ tc_closed' = TRUE
  /\ tc_mutex' = "close"
  /\ closeIdx' = 1
  /\ closePc' = [closePc EXCEPT ![c] = "slots"]
  /\ UNCHANGED <<info, withParent, parentCancelled, ctxCancelled, t_closed,
                 t_cluster, t_mutex, evURL, evError, evClose, connections,
                 openPc, openRet, startPc, startI, maintPc, maintIdx, urlPc,
                 urlRets, panicked, failuresLeft, env, hist, tx, evRequest,
                 nt>>

\* TunnelCluster.Close: tc.mutex.Lock(); if tc.closed { return };
\* tc.closed = true
ClusterCloseBegin(c) ==
  /\ ~panicked
  /\ closePc[c] = "cluster"
  /\ tc_mutex = "free"
  /\ IF tc_closed
     THEN /\ closePc' = [closePc EXCEPT ![c] = CloseReturn(c)]
          /\ UNCHANGED <<tc_closed, tc_mutex, closeIdx>>
     ELSE /\ tc_closed' = TRUE
          /\ tc_mutex' = "close"
          /\ closeIdx' = 1
          /\ closePc' = [closePc EXCEPT ![c] = "slots"]
  /\ UNCHANGED <<info, withParent, parentCancelled, ctxCancelled, t_closed,
                 t_cluster, t_mutex, evURL, evError, evClose, connections,
                 openPc, openRet, startPc, startI, maintPc, maintIdx, urlPc,
                 urlRets, panicked, failuresLeft, env, hist, tx, evRequest,
                 nt>>

\* for _, conn := range tc.connections { conn.close() }: one slot; close
\* waits for the slot lock
ClusterCloseSlot(c) ==
  /\ ~panicked
  /\ closePc[c] = "slots"
  /\ closeIdx <= Len(connections)
  /\ connections[closeIdx].mutex = "free"
  /\ connections' = [connections EXCEPT ![closeIdx] = CloseSlotBody(@)]
  /\ closeIdx' = closeIdx + 1
  /\ UNCHANGED <<info, withParent, parentCancelled, ctxCancelled, t_closed,
                 t_cluster, t_mutex, evURL, evError, evClose, tc_closed,
                 tc_mutex, openPc, openRet, closePc, startPc, startI,
                 maintPc, maintIdx, urlPc, urlRets, panicked, failuresLeft,
                 env, hist, tx, evRequest, nt>>

\* the loop is over: tc.mutex.Unlock()
ClusterCloseEnd(c) ==
  /\ ~panicked
  /\ closePc[c] = "slots"
  /\ closeIdx > Len(connections)
  /\ tc_mutex' = "free"
  /\ closePc' = [closePc EXCEPT ![c] = CloseReturn(c)]
  /\ UNCHANGED <<info, withParent, parentCancelled, ctxCancelled, t_closed,
                 t_cluster, t_mutex, evURL, evError, evClose, tc_closed,
                 connections, openPc, openRet, closeIdx, startPc, startI,
                 maintPc, maintIdx, urlPc, urlRets, panicked, failuresLeft,
                 env, hist, tx, evRequest, nt>>

\* a Close that returns without the select on t.events.Close
TunnelCloseSilent(c) ==
  /\ ~panicked
  /\ closePc[c] = "publish"
  /\ t_mutex' = 0
  /\ closePc' = [closePc EXCEPT ![c] = "done"]
  /\ UNCHANGED <<info, withParent, parentCancelled, ctxCancelled, t_closed,
                 t_cluster, evURL, evError, evClose, tc_closed, tc_mutex,
                 connections, openPc, openRet, closeIdx, startPc, startI,
                 maintPc, maintIdx, urlPc, urlRets, panicked, failuresLeft,
                 env, hist, tx, evRequest, nt>>

\* select { case t.events.Close <- struct{}{}: default: }; return nil
TunnelClosePublish(c) ==
  /\ ~panicked
  /\ closePc[c] = "publish"
  /\ IF evClose < CloseChanSize
     THEN /\ evClose' = evClose + 1
          /\ hist' = [hist EXCEPT !.closed = @ + 1]
     ELSE UNCHANGED <<evClose, hist>>
  /\ t_mutex' = 0
  /\ closePc' = [closePc EXCEPT ![c] = "done"]
  /\ UNCHANGED <<info, withParent, parentCancelled, ctxCancelled, t_closed,
                 t_cluster, evURL, evError, tc_closed, tc_mutex, connections,
                 openPc, openRet, closeIdx, startPc, startI, maintPc,
                 maintIdx, urlPc, urlRets, panicked, failuresLeft, env, tx,
                 evRequest, nt>>

(* ---- the caller reading the event stream (api.go, ExampleUsage) ---- *)
\* case <-events.Close:
EventsReadClose ==
  /\ ~panicked
  /\ evClose > 0
  /\ evClose' = evClose - 1
  /\ UNCHANGED <<info, withParent, parentCancelled, ctxCancelled, t_closed,
                 t_cluster, t_mutex, evURL, evError, tc_closed, tc_mutex,
                 connections, openPc, openRet, closePc, closeIdx, startPc,
                 startI, maintPc, maintIdx, urlPc, urlRets, panicked,
                 failuresLeft, env, hist, tx, evRequest, nt>>

(* ---- Tunnel.URL (tunnel.go) ---- *)
URLCall ==
  /\ ~panicked
  /\ urlPc = "idle"
  /\ Len(urlRets) < env.urls
  /\ urlPc' = IF openRet = "nil" THEN "waitOpened" ELSE "wait"
  /\ UNCHANGED <<info, withParent, parentCancelled, ctxCancelled, t_closed,
                 t_cluster, t_mutex, evURL, evError, evClose, tc_closed,
                 tc_mutex, connections, openPc, openRet, closePc, closeIdx,
                 startPc, startI, maintPc, maintIdx, urlRets, panicked,
                 failuresLeft, env, hist, tx, evRequest, nt>>

\* what a returning URL call leaves behind: its result, and what the
\* session looked like when it returned
URLWaiting == urlPc \in {"wait", "waitOpened"}

URLResult(kind, val) ==
  [kind |-> kind, val |-> val,
   first |-> IF hist.order = <<>> THEN "none" ELSE hist.order[1],
   cancelled |-> CtxDone, opened |-> (urlPc = "waitOpened")]

\* a URL that returns the published URL and leaves it in the channel
URLPeekURL ==
  /\ ~panicked
  /\ URLWaiting
  /\ evURL # <<>>
  /\ urlRets' = Append(urlRets, URLResult("url", Head(evURL)))
  /\ urlPc' = "idle"
  /\ UNCHANGED <<info, withParent, parentCancelled, ctxCancelled, t_closed,
                 t_cluster, t_mutex, evURL, evError, evClose, tc_closed,
                 tc_mutex, connections, openPc, openRet, closePc, closeIdx,
                 startPc, startI, maintPc, maintIdx, panicked, failuresLeft,
                 env, hist, tx, evRequest, nt>>

\* case url := <-t.events.URL: return url, nil
URLRecvURL ==
  /\ ~panicked
  /\ URLWaiting
  /\ evURL # <<>>
  /\ urlRets' = Append(urlRets, URLResult("url", Head(evURL)))
  /\ evURL' = Tail(evURL)
  /\ urlPc' = "idle"
  /\ UNCHANGED <<info, withParent, parentCancelled, ctxCancelled, t_closed,
                 t_cluster, t_mutex, evError, evClose, tc_closed, tc_mutex,
                 connections, openPc, openRet, closePc, closeIdx, startPc,
                 startI, maintPc, maintIdx, panicked, failuresLeft, env,
                 hist, tx, evRequest, nt>>

\* case err := <-t.events.Error: return "", err
URLRecvError ==
  /\ ~panicked
  /\ URLWaiting
  /\ evError # <<>>
  /\ urlRets' = Append(urlRets, URLResult("err", Head(evError)))
  /\ evError' = Tail(evError)
  /\ urlPc' = "idle"
  /\ UNCHANGED <<info, withParent, parentCancelled, ctxCancelled, t_closed,
                 t_cluster, t_mutex, evURL, evClose, tc_closed, tc_mutex,
                 connections, openPc, openRet, closePc, closeIdx, startPc,
                 startI, maintPc, maintIdx, panicked, failuresLeft, env,
                 hist, tx, evRequest, nt>>

\* case <-t.ctx.Done(): return "", t.ctx.Err()
URLCtxDone ==
  /\ ~panicked
  /\ URLWaiting
  /\ CtxDone
  /\ urlRets' = Append(urlRets, URLResult("ctx", "canceled"))
  /\ urlPc' = "idle"
  /\ UNCHANGED <<info, withParent, parentCancelled, ctxCancelled, t_closed,
                 t_cluster, t_mutex, evURL, evError, evClose, tc_closed,
                 tc_mutex, connections, openPc, openRet, closePc, closeIdx,
                 startPc, startI, maintPc, maintIdx, panicked, failuresLeft,
                 env, hist, tx, evRequest, nt>>

(* ---- TunnelConnection.connect (cluster.go) ---- *)
\* a connect that dials whatever the state of the slot
ConnectBodyUnchecked(s) == [s EXCEPT !.connects = @ - 1, !.mutex = "dialing"]

\* conn.mutex.Lock(); if conn.active { return }
ConnectBody(s) ==
  IF s.active THEN [s EXCEPT !.connects = @ - 1]
              ELSE [s EXCEPT !.connects = @ - 1, !.mutex = "dialing"]

ConnectBegin(i) ==
  /\ ~panicked
  /\ i \in LiveSlots
  /\ connections[i].connects > 0
  /\ connections[i].mutex = "free"
  /\ connections' = [connections EXCEPT ![i] = ConnectBody(@)]
  /\ hist' = [hist EXCEPT !.skipped = @ \/ connections[i].active]
  /\ UNCHANGED <<info, withParent, parentCancelled, ctxCancelled, t_closed,
                 t_cluster, t_mutex, evURL, evError, evClose, tc_closed,
                 tc_mutex, openPc, openRet, closePc, closeIdx, startPc,
                 startI, maintPc, maintIdx, urlPc, urlRets, panicked,
                 failuresLeft, env, tx, evRequest, nt>>

\* net.DialTimeout succeeds: conn.conn = netConn; conn.active = true;
\* go conn.handleConnection(ctx); the lock is released on return.  connect
\* does not look for a handleConnection of an earlier connect: one that
\* still runs is followed from its next test of the token on
ConnectInstall(s) ==
  [s EXCEPT !.conn = 1, !.active = TRUE, !.mutex = "free", !.hpc = "top",
            !.eos = FALSE, !.txs = 0, !.txerr = FALSE,
            !.stale = IF s.hpc = "none" THEN @ ELSE @ + 1]

ConnectDialOk(i) ==
  /\ ~panicked
  /\ i \in LiveSlots
  /\ connections[i].mutex = "dialing"
  /\ connections[i].hpc = "none" \/ connections[i].stale = 0
  /\ connections' = [connections EXCEPT ![i] = ConnectInstall(@)]
  /\ UNCHANGED <<info, withParent, parentCancelled, ctxCancelled, t_closed,
                 t_cluster, t_mutex, evURL, evError, evClose, tc_closed,
                 tc_mutex, openPc, openRet, closePc, closeIdx, startPc,
                 startI, maintPc, maintIdx, urlPc, urlRets, panicked,
                 failuresLeft, env, hist, tx, evRequest, nt>>

\* a connect that installs the slot although its dial failed
ConnectDialFailInstalls(i) ==
  /\ ~panicked
  /\ i \in LiveSlots
  /\ connections[i].mutex = "dialing"
  /\ failuresLeft # 0
  /\ failuresLeft' = FailuresAfter(failuresLeft)
  /\ connections' = [connections EXCEPT ![i].mutex = "report", ![i].active = TRUE]
  /\ UNCHANGED <<info, withParent, parentCancelled, ctxCancelled, t_closed,
                 t_cluster, t_mutex, evURL, evError, evClose, tc_closed,
                 tc_mutex, openPc, openRet, closePc, closeIdx, startPc,
                 startI, maintPc, maintIdx, urlPc, urlRets, panicked, env,
                 hist, tx, evRequest, nt>>

\* net.DialTimeout fails (refused, unreachable, or the 10 s timeout)
ConnectDialFail(i) ==
  /\ ~panicked
  /\ i \in LiveSlots
  /\ connections[i].mutex = "dialing"
  /\ failuresLeft # 0
  /\ failuresLeft' = FailuresAfter(failuresLeft)
  /\ connections' = [connections EXCEPT ![i].mutex = "report"]
  /\ UNCHANGED <<info, withParent, parentCancelled, ctxCancelled, t_closed,
                 t_cluster, t_mutex, evURL, evError, evClose, tc_closed,
                 tc_mutex, openPc, openRet, closePc, closeIdx, startPc,
                 startI, maintPc, maintIdx, urlPc, urlRets, panicked, env,
                 hist, tx, evRequest, nt>>

\* select { case conn.cluster.events.Error <- ...: }; return
ConnectReportError(i) ==
  /\ ~panicked
  /\ i \in LiveSlots
  /\ connections[i].mutex = "report"
  /\ Len(evError) < ErrorChanSize
  /\ evError' = Append(evError, "DialFailed")
  /\ connections' = [connections EXCEPT ![i].mutex = "free"]
  /\ UNCHANGED <<info, withParent, parentCancelled, ctxCancelled, t_closed,
                 t_cluster, t_mutex, evURL, evClose, tc_closed, tc_mutex,
                 openPc, openRet, closePc, closeIdx, startPc, startI,
                 maintPc, maintIdx, urlPc, urlRets, panicked, failuresLeft,
                 env, hist, tx, evRequest, nt>>

\* select { ... case <-ctx.Done(): }; return
ConnectReportCtxDone(i) ==
  /\ ~panicked
  /\ i \in LiveSlots
  /\ connections[i].mutex = "report"
  /\ CtxDone
  /\ connections' = [connections EXCEPT ![i].mutex = "free"]
  /\ UNCHANGED <<info, withParent, parentCancelled, ctxCancelled, t_closed,
                 t_cluster, t_mutex, evURL, evError, evClose, tc_closed,
                 tc_mutex, openPc, openRet, closePc, closeIdx, startPc,
                 startI, maintPc, maintIdx, urlPc, urlRets, panicked,
                 failuresLeft, env, hist, tx, evRequest, nt>>

(* ---- TunnelConnection.handleConnection (cluster.go) ---- *)
\* select { case <-ctx.Done(): return; default: } with the token not fired
HandlerLoop(i) ==
  /\ ~panicked
  /\ i \in LiveSlots
  /\ connections[i].hpc = "top"
  /\ ~CtxDone
  /\ connections' = [connections EXCEPT ![i].hpc = "deadline"]
  /\ UNCHANGED <<info, withParent, parentCancelled, ctxCancelled, t_closed,
                 t_cluster, t_mutex, evURL, evError, evClose, tc_closed,
                 tc_mutex, openPc, openRet, closePc, closeIdx, startPc,
                 startI, maintPc, maintIdx, urlPc, urlRets, panicked,
                 failuresLeft, env, hist, tx, evRequest, nt>>

\* the token fired: return, and the deferred conn.close() takes the slot lock
HandlerExit(i) ==
  /\ ~panicked
  /\ i \in LiveSlots
  /\ connections[i].hpc = "top"
  /\ CtxDone
  /\ connections[i].mutex = "free"
  /\ connections' = [connections EXCEPT ![i] = [CloseSlotBody(@) EXCEPT !.hpc = "none"]]
  /\ UNCHANGED <<info, withParent, parentCancelled, ctxCancelled, t_closed,
                 t_cluster, t_mutex, evURL, evError, evClose, tc_closed,
                 tc_mutex, openPc, openRet, closePc, closeIdx, startPc,
                 startI, maintPc, maintIdx, urlPc, urlRets, panicked,
                 failuresLeft, env, hist, tx, evRequest, nt>>

\* the handleConnection of an earlier connect finds the token fired:
\* return, and its deferred conn.close() takes the slot lock
StaleHandlerExit(i) ==
  /\ ~panicked
  /\ i \in LiveSlots
  /\ connections[i].stale > 0
  /\ CtxDone
  /\ connections[i].mutex = "free"
  /\ connections' = [connections EXCEPT ![i] = [CloseSlotBody(@) EXCEPT !.stale = @ - 1]]
  /\ UNCHANGED <<info, withParent, parentCancelled, ctxCancelled, t_closed,
                 t_cluster, t_mutex, evURL, evError, evClose, tc_closed,
                 tc_mutex, openPc, openRet, closePc, closeIdx, startPc,
                 startI, maintPc, maintIdx, urlPc, urlRets, panicked,
                 failuresLeft, env, hist, tx, evRequest, nt>>

\* conn.conn.SetReadDeadline(...): conn.conn is read without the slot lock,
\* and a call on the nil interface panics
HandlerSetDeadline(i) ==
  /\ ~panicked
  /\ i \in LiveSlots
  /\ connections[i].hpc = "deadline"
  /\ IF connections[i].conn = 0
     THEN /\ panicked' = TRUE
          /\ UNCHANGED connections
     ELSE /\ connections' = [connections EXCEPT ![i].hpc = "dial"]
          /\ UNCHANGED panicked
  /\ UNCHANGED <<info, withParent, parentCancelled, ctxCancelled, t_closed,
                 t_cluster, t_mutex, evURL, evError, evClose, tc_closed,
                 tc_mutex, openPc, openRet, closePc, closeIdx, startPc,
                 startI, maintPc, maintIdx, urlPc, urlRets, failuresLeft,
                 env, hist, tx, evRequest, nt>>

\* connectToLocal succeeds: go conn.proxyConnection(localConn, transformer)
HandlerLocalOk(i) ==
  /\ ~panicked
  /\ i \in LiveSlots
  /\ connections[i].hpc = "dial"
  /\ env.localUp
  /\ connections[i].pnew + connections[i].prun < env.proxies
  /\ connections' = [connections EXCEPT ![i].hpc = "top", ![i].pnew = @ + 1]
  /\ UNCHANGED <<info, withParent, parentCancelled, ctxCancelled, t_closed,
                 t_cluster, t_mutex, evURL, evError, evClose, tc_closed,
                 tc_mutex, openPc, openRet, closePc, closeIdx, startPc,
                 startI, maintPc, maintIdx, urlPc, urlRets, panicked,
                 failuresLeft, env, hist, tx, evRequest, nt>>

\* connectToLocal fails
HandlerLocalFail(i) ==
  /\ ~panicked
  /\ i \in LiveSlots
  /\ connections[i].hpc = "dial"
  /\ failuresLeft # 0
  /\ failuresLeft' = FailuresAfter(failuresLeft)
  /\ connections' = [connections EXCEPT ![i].hpc = "report"]
  /\ UNCHANGED <<info, withParent, parentCancelled, ctxCancelled, t_closed,
                 t_cluster, t_mutex, evURL, evError, evClose, tc_closed,
                 tc_mutex, openPc, openRet, closePc, closeIdx, startPc,
                 startI, maintPc, maintIdx, urlPc, urlRets, panicked, env,
                 hist, tx, evRequest, nt>>

\* select { case conn.cluster.events.Error <- err: }; continue
HandlerReportError(i) ==
  /\ ~panicked
  /\ i \in LiveSlots
  /\ connections[i].hpc = "report"
  /\ Len(evError) < ErrorChanSize
  /\ evError' = Append(evError, "DialFailed")
  /\ connections' = [connections EXCEPT ![i].hpc = "top"]
  /\ UNCHANGED <<info, withParent, parentCancelled, ctxCancelled, t_closed,
                 t_cluster, t_mutex, evURL, evClose, tc_closed, tc_mutex,
                 openPc, openRet, closePc, closeIdx, startPc, startI,
                 maintPc, maintIdx, urlPc, urlRets, panicked, failuresLeft,
                 env, hist, tx, evRequest, nt>>

\* select { ... case <-ctx.Done(): }; continue
HandlerReportCtxDone(i) ==
  /\ ~panicked
  /\ i \in LiveSlots
  /\ connections[i].hpc = "report"
  /\ CtxDone
  /\ connections' = [connections EXCEPT ![i].hpc = "top"]
  /\ UNCHANGED <<info, withParent, parentCancelled, ctxCancelled, t_closed,
                 t_cluster, t_mutex, evURL, evError, evClose, tc_closed,
                 tc_mutex, openPc, openRet, closePc, closeIdx, startPc,
                 startI, maintPc, maintIdx, urlPc, urlRets, panicked,
                 failuresLeft, env, hist, tx, evRequest, nt>>

(* ---- TunnelConnection.proxyConnection (cluster.go) ---- *)
\* the copy goroutines start: transformer.Transform(conn.conn, localConn)
\* and io.Copy(conn.conn, localConn) read conn.conn without the slot lock,
\* and reading from the nil interface panics
ProxyStartBody(s) ==
  [s EXCEPT !.pnew = @ - 1, !.prun = @ + 1, !.txs = Min(@ + 1, 2)]

ProxyStart(i) ==
  /\ ~panicked
  /\ i \in LiveSlots
  /\ connections[i].pnew > 0
  /\ IF connections[i].conn = 0
     THEN /\ panicked' = TRUE
          /\ UNCHANGED connections
     ELSE /\ connections' = [connections EXCEPT ![i] = ProxyStartBody(@)]
          /\ UNCHANGED panicked
  /\ UNCHANGED <<info, withParent, parentCancelled, ctxCancelled, t_closed,
                 t_cluster, t_mutex, evURL, evError, evClose, tc_closed,
                 tc_mutex, openPc, openRet, closePc, closeIdx, startPc,
                 startI, maintPc, maintIdx, urlPc, urlRets, failuresLeft,
                 env, hist, tx, evRequest, nt>>

\* <-done: one direction has ended; the deferred localConn.Close() runs and
\* proxyConnection returns
ProxyEndBody(s) == [s EXCEPT !.prun = @ - 1, !.eos = TRUE]

ProxyEnd(i) ==
  /\ ~panicked
  /\ i \in LiveSlots
  /\ connections[i].prun > 0
  /\ connections' = [connections EXCEPT ![i] = ProxyEndBody(@)]
  /\ UNCHANGED <<info, withParent, parentCancelled, ctxCancelled, t_closed,
                 t_cluster, t_mutex, evURL, evError, evClose, tc_closed,
                 tc_mutex, openPc, openRet, closePc, closeIdx, startPc,
                 startI, maintPc, maintIdx, urlPc, urlRets, panicked,
                 failuresLeft, env, hist, tx, evRequest, nt>>

\* a read of the broker socket fails while the slot is open (the broker
\* resets the connection): transformer.Transform(conn.conn, localConn)
\* returns the error, which proxyConnection does not look at; io.Copy
\* follows and fails on the same socket, done is signalled and
\* proxyConnection returns
ProxyFailBody(s) == [s EXCEPT !.prun = @ - 1, !.eos = TRUE, !.txerr = TRUE]

ProxyFail(i) ==
  /\ ~panicked
  /\ i \in LiveSlots
  /\ connections[i].prun > 0
  /\ connections[i].conn = 1
  /\ failuresLeft # 0
  /\ failuresLeft' = FailuresAfter(failuresLeft)
  /\ connections' = [connections EXCEPT ![i] = ProxyFailBody(@)]
  /\ UNCHANGED <<info, withParent, parentCancelled, ctxCancelled, t_closed,
                 t_cluster, t_mutex, evURL, evError, evClose, tc_closed,
                 tc_mutex, openPc, openRet, closePc, closeIdx, startPc,
                 startI, maintPc, maintIdx, urlPc, urlRets, panicked, env,
                 hist, tx, evRequest, nt>>

\* the broker socket was closed while Transform was reading it: Transform
\* returns, and io.Copy(localConn, conn.conn) reads conn.conn again, now
\* nil, and panics on its first Read
ProxyCopyRest(i) ==
  /\ ~panicked
  /\ i \in LiveSlots
  /\ connections[i].prun > 0
  /\ connections[i].conn = 0
  /\ panicked' = TRUE
  /\ UNCHANGED <<info, withParent, parentCancelled, ctxCancelled, t_closed,
                 t_cluster, t_mutex, evURL, evError, evClose, tc_closed,
                 tc_mutex, connections, openPc, openRet, closePc, closeIdx,
                 startPc, startI, maintPc, maintIdx, urlPc, urlRets,
                 failuresLeft, env, hist, tx, evRequest, nt>>

\* close() has closed the broker socket: the reads of the copies on it
\* return an error
ProxyUnblocked(i) ==
  /\ i \in LiveSlots
  /\ connections[i].conn = 0
  /\ (ProxyEnd(i) \/ ProxyCopyRest(i))

(* ---- maintainConnections and checkConnections (cluster.go) ---- *)
\* case <-ticker.C: checkConnections: tc.mutex.Lock(); if tc.closed { return }
HealthTick ==
  /\ ~panicked
  /\ maintPc = "wait"
  /\ tc_mutex = "free"
  /\ IF tc_closed
     THEN UNCHANGED <<maintPc, maintIdx, tc_mutex>>
     ELSE /\ tc_mutex' = "health"
          /\ maintPc' = "scan"
          /\ maintIdx' = 1
  /\ UNCHANGED <<info, withParent, parentCancelled, ctxCancelled, t_closed,
                 t_cluster, t_mutex, evURL, evError, evClose, tc_closed,
                 connections, openPc, openRet, closePc, closeIdx, startPc,
                 startI, urlPc, urlRets, panicked, failuresLeft, env, hist,
                 tx, evRequest, nt>>

\* a pass that launches connect for every slot
HealthSlotAlways(s) == [s EXCEPT !.connects = Min(@ + 1, env.pending)]

\* if !conn.isActive() { go conn.connect(...) }: isActive waits for the
\* slot lock
HealthSlot(s) ==
  IF IsActive(s) THEN s ELSE [s EXCEPT !.connects = Min(@ + 1, env.pending)]

HealthScan ==
  /\ ~panicked
  /\ maintPc = "scan"
  /\ maintIdx <= Len(connections)
  /\ connections[maintIdx].mutex = "free"
  /\ connections' = [connections EXCEPT ![maintIdx] = HealthSlot(@)]
  /\ maintIdx' = maintIdx + 1
  /\ UNCHANGED <<info, withParent, parentCancelled, ctxCancelled, t_closed,
                 t_cluster, t_mutex, evURL, evError, evClose, tc_closed,
                 tc_mutex, openPc, openRet, closePc, closeIdx, startPc,
                 startI, maintPc, urlPc, urlRets, panicked, failuresLeft,
                 env, hist, tx, evRequest, nt>>

\* the loop is over: tc.mutex.Unlock()
HealthEnd ==
  /\ ~panicked
  /\ maintPc = "scan"
  /\ maintIdx > Len(connections)
  /\ tc_mutex' = "free"
  /\ maintPc' = "wait"
  /\ UNCHANGED <<info, withParent, parentCancelled, ctxCancelled, t_closed,
                 t_cluster, t_mutex, evURL, evError, evClose, tc_closed,
                 connections, openPc, openRet, closePc, closeIdx, startPc,
                 startI, maintIdx, urlPc, urlRets, panicked, failuresLeft,
                 env, hist, tx, evRequest, nt>>

\* case <-ctx.Done(): return
MaintainExit ==
  /\ ~panicked
  /\ maintPc = "wait"
  /\ CtxDone
  /\ maintPc' = "done"
  /\ UNCHANGED <<info, withParent, parentCancelled, ctxCancelled, t_closed,
                 t_cluster, t_mutex, evURL, evError, evClose, tc_closed,
                 tc_mutex, connections, openPc, openRet, closePc, closeIdx,
                 startPc, startI, maintIdx, urlPc, urlRets, panicked,
                 failuresLeft, env, hist, tx, evRequest, nt>>

(* ---- the session as a whole ---- *)
OpenStep == OpenHandshakeFails \/ OpenRegister \/ OpenSendURL \/ OpenCtxDone

StartStep ==
  \/ StartInvalidURL \/ StartParsed \/ StartAppend \/ StartMaintain
  \/ StartReportError \/ StartReportCtxDone

CloseStep ==
  \E c \in Closers :
    \/ CloseCall(c) \/ TunnelCloseBegin(c) \/ ClusterCloseBegin(c)
    \/ ClusterCloseSlot(c) \/ ClusterCloseEnd(c) \/ TunnelClosePublish(c)

URLStep == URLCall \/ URLRecvURL \/ URLRecvError \/ URLCtxDone

ConnectStep(i) ==
  \/ ConnectBegin(i) \/ ConnectDialOk(i) \/ ConnectDialFail(i)
  \/ ConnectReportError(i) \/ ConnectReportCtxDone(i)

HandlerStep(i) ==
  \/ HandlerLoop(i) \/ HandlerExit(i) \/ HandlerSetDeadline(i)
  \/ HandlerLocalOk(i) \/ HandlerLocalFail(i)
  \/ HandlerReportError(i) \/ HandlerReportCtxDone(i)

ProxyStep(i) == ProxyStart(i) \/ ProxyEnd(i) \/ ProxyCopyRest(i)

HealthStep == HealthTick \/ HealthScan \/ HealthEnd \/ MaintainExit

Next ==
  \/ OpenStep \/ StartStep \/ CloseStep \/ URLStep \/ ParentCancel
  \/ EventsReadClose
  \/ HealthStep
  \/ \E i \in SlotIds : ConnectStep(i) \/ HandlerStep(i) \/ ProxyStep(i)
  \/ \E i \in SlotIds : ProxyFail(i) \/ StaleHandlerExit(i)

Spec == Init /\ [][Next]_vars

(* ---- scheduling ---- *)
\* the scenarios of FairSpec: the network may fail any number of dials, so
\* that the error channel fills up, and every goroutine is scheduled
FairWorlds ==
  {World("valid", 1, FALSE, -1, MaxClosers, 0, 1, FALSE, 1, 1),
   World("valid", 1, FALSE, -1, 1, 0, 1, TRUE, 1, 1),
   World("nohost", 1, FALSE, -1, 1, 0, 1, FALSE, 1, 1)}

FairInit == InitWith(FairWorlds)

\* The Go scheduler runs every runnable goroutine; a dial returns (it
\* succeeds, fails or times out); the ticker fires; a goroutine waiting
\* for a sync.Mutex gets it (starvation mode hands the lock to a waiter);
\* a read on a closed socket returns;
\* a select whose case stays ready is taken, and one that is ready again
\* and again (ctx.Done() against the 30 s ticker) is taken in the end.  Calling
\* Open or Close is the caller's choice.
Fairness ==
  /\ WF_vars(OpenSendURL \/ OpenCtxDone)
  /\ WF_vars(StartStep)
  /\ \A c \in Closers :
       /\ SF_vars(TunnelCloseBegin(c))
       /\ SF_vars(ClusterCloseBegin(c))
       /\ WF_vars(ClusterCloseSlot(c) \/ ClusterCloseEnd(c) \/ TunnelClosePublish(c))
  /\ WF_vars(HealthTick \/ HealthScan \/ HealthEnd)
  /\ SF_vars(MaintainExit)
  /\ \A i \in 1..MaxLiveSlots :
       /\ WF_vars(ConnectStep(i))
       /\ WF_vars(HandlerStep(i))
       /\ WF_vars(ProxyStart(i))
       /\ WF_vars(ProxyUnblocked(i))

\* a session whose caller calls Open and Close only and has no parent
\* context, and whose broker resets no connection
FairNext ==
  \/ OpenStep \/ StartStep \/ CloseStep \/ HealthStep
  \/ \E i \in SlotIds : ConnectStep(i) \/ HandlerStep(i) \/ ProxyStep(i)

FairSpec == FairInit /\ [][FairNext]_vars /\ Fairness

(* ---- a call of Transform on its own ---- *)
\* transformer.Transform(conn.conn, localConn) on every stream of Streams;
\* the session stays as NewTunnel left it
TxInit ==
  /\ \E s \in Streams : tx = [TxIdle EXCEPT !.input = s, !.pc = "first"]
  /\ nt = NtIdle
  /\ SessionInit({World("valid", 1, FALSE, 0, 0, 0, 1, TRUE, 1, 1)})

TxNext ==
  \/ TxFill \/ TxFirstLine \/ TxFirstNone \/ TxHeader \/ TxHeadersEnd
  \/ TxCopy \/ TxCopyEnd

TransformSpec == TxInit /\ [][TxNext]_vars

(* ---- a call of Transform on requests of several header lines ---- *)
HeaderInit ==
  /\ \E s \in HeaderStreams : tx = [TxIdle EXCEPT !.input = s, !.pc = "first"]
  /\ nt = NtIdle
  /\ SessionInit({World("valid", 1, FALSE, 0, 0, 0, 1, TRUE, 1, 1)})

\* the streams of HeaderInit all hold a request line
HeaderNext ==
  \/ TxFill \/ TxFirstLine \/ TxHeader \/ TxHeadersEnd \/ TxTooLong
  \/ TxCopy \/ TxCopyEnd

HeaderSpec == HeaderInit /\ [][HeaderNext]_vars

(* ---- a call of NewTunnel on its own ---- *)
\* Connect(port, options) / NewTunnel(port, options)
NtInit ==
  /\ \E p \in 0..MaxPort, o \in OptionsGiven :
       nt = [NtIdle EXCEPT !.port = p, !.given = o, !.pc = "call"]
  /\ tx = TxIdle
  /\ SessionInit({World("valid", 1, FALSE, 0, 0, 0, 1, TRUE, 1, 1)})

NtNext == NtNewTunnel

NewTunnelSpec == NtInit /\ [][NtNext]_vars

(* ---- a pool used on its own ---- *)
\* NewTunnelCluster(info, options, events), as the tests of the pool build
\* it: no Tunnel; Start gets a context its caller may cancel
PoolInit ==
  InitWith({World("valid", 1, TRUE, 1, MaxClosers, 0, 1, TRUE, 1, 1)})

\* the caller calls cluster.Start(ctx)
PoolStart ==
  /\ ~panicked
  /\ startPc = "none"
  /\ startPc' = "parse"
  /\ UNCHANGED <<info, withParent, parentCancelled, ctxCancelled, t_closed,
                 t_cluster, t_mutex, evURL, evError, evClose, tc_closed,
                 tc_mutex, connections, openPc, openRet, closePc, closeIdx,
                 startI, maintPc, maintIdx, urlPc, urlRets, panicked,
                 failuresLeft, env, hist, tx, evRequest, nt>>

\* a caller calls cluster.Close()
PoolCloseCall(c) ==
  /\ ~panicked
  /\ closePc[c] = "idle"
  /\ c <= env.closes
  /\ closePc' = [closePc EXCEPT ![c] = "cluster"]
  /\ UNCHANGED <<info, withParent, parentCancelled, ctxCancelled, t_closed,
                 t_cluster, t_mutex, evURL, evError, evClose, tc_closed,
                 tc_mutex, connections, openPc, openRet, closeIdx, startPc,
                 startI, maintPc, maintIdx, urlPc, urlRets, panicked,
                 failuresLeft, env, hist, tx, evRequest, nt>>

PoolNext ==
  \/ PoolStart \/ StartParsed \/ StartAppend \/ StartMaintain
  \/ ParentCancel
  \/ \E c \in Closers :
       \/ PoolCloseCall(c) \/ ClusterCloseBegin(c)
       \/ ClusterCloseSlot(c) \/ ClusterCloseEnd(c)
  \/ HealthStep
  \/ \E i \in SlotIds : ConnectStep(i) \/ HandlerStep(i) \/ ProxyStep(i)

PoolSpec == PoolInit /\ [][PoolNext]_vars

(* ---- C1 ---- *)
\* C1: a call of Tunnel.Close returns in every interleaving with the
\* goroutines of the session: a caller that has entered Close is never left
\* waiting for the session lock, the pool lock, a slot lock or an event
\* channel.
C1_CloseReturns ==
  \A c \in Closers : (closePc[c] \notin {"idle", "done"}) ~> (closePc[c] = "done")

\* what the code does give: a call of Close returns unless the process has
\* ended in a panic; no lock and no channel holds it forever
CloseReturnsOrCrashes ==
  \A c \in Closers :
    (closePc[c] \notin {"idle", "done"}) ~> (closePc[c] = "done" \/ panicked)

(* ---- C2 ---- *)
\* C2: after a successful Open followed by Close, once that Close has
\* returned no slot of the pool is active.
C2_NoActiveSlotAfterClose ==
  \A c \in Closers :
    (c \in hist.afterOpen /\ closePc[c] = "done") => ActiveSlots = {}

(* ---- C3 ---- *)
\* every goroutine of the session has returned: Start, the connects, the
\* proxy loops (handleConnection) and the health check
TasksTerminated ==
  /\ startPc \in {"none", "done", "failed"}
  /\ maintPc \in {"none", "done"}
  /\ \A i \in Slots :
       /\ connections[i].connects = 0
       /\ connections[i].mutex = "free"
       /\ connections[i].hpc = "none"

\* C3: after Close has returned, eventually every slot is inactive and
\* stays inactive forever and every connect, proxy-loop and health-check
\* task has terminated.
C3_EventuallyQuiescent ==
  \A c \in Closers :
    [](closePc[c] = "done" => <>[](ActiveSlots = {} /\ TasksTerminated))

\* what the code does give: after Close has returned the session comes to
\* rest unless the process ends in a panic first
QuiescentOrCrashed ==
  \A c \in Closers :
    [](closePc[c] = "done" => <>[]((ActiveSlots = {} /\ TasksTerminated) \/ panicked))

(* ---- C4 ---- *)
\* what a caller can observe of the session
Observable ==
  <<t_closed, ctxCancelled, t_cluster, tc_closed, connections, evURL, evError,
    evClose, hist.closed>>

\* C4: a call of Close on a session that is already closed returns and
\* changes nothing: the closed flag stays set, the pool and the slots are
\* not touched and no further Closed event is published; a session that
\* was never opened included.
C4_CloseIdempotent ==
  [][\A c \in Closers :
       (t_closed /\ closePc[c] = "lock" /\ closePc'[c] # "lock")
         => (closePc'[c] = "done" /\ t_closed' /\ UNCHANGED Observable)]_vars

\* two calls of Close have returned on a session that was never opened
C4_Witness ==
  /\ \A c \in Closers : closePc[c] = "done"
  /\ openPc = "idle"
  /\ t_closed
  /\ hist.closed = 1

(* ---- C5 ---- *)
\* C5: the first Close publishes a Closed event, and at most one Closed
\* event is ever published for a session.
C5_OneClosedEvent ==
  /\ hist.closed <= 1
  /\ evClose <= hist.closed
  /\ (\E c \in Closers : closePc[c] = "done") => hist.closed = 1

\* two calls of Close have returned after an Open, and the caller has read
\* the Closed event
C5_Witness ==
  /\ \A c \in Closers : closePc[c] = "done"
  /\ openRet = "nil"
  /\ hist.closed = 1
  /\ evClose = 0

(* ---- C6 ---- *)
\* C6: when the handshake fails, Open returns the error and the session
\* never creates or starts a pool, dials no slot and publishes no URL.
C6_HandshakeFailure ==
  openRet \in {"transport", "status", "decode"} =>
    /\ openPc = "done"
    /\ ~t_cluster
    /\ startPc = "none"
    /\ maintPc = "none"
    /\ connections = <<>>
    /\ hist.launched = 0
    /\ hist.url = 0
    /\ evURL = <<>>

\* Open has failed with a status that is not 200, and Close has run since
C6_Witness ==
  /\ openRet = "status"
  /\ \E c \in Closers : closePc[c] = "done"

C8_PoolSize ==
  startPc = "done" =>
    /\ Len(connections) = (IF info.MaxConn > 0 THEN info.MaxConn ELSE 10)
    /\ hist.launched = Len(connections)

\* a pool of the default size after a health check and a Close
C8_Witness ==
  /\ startPc = "done"
  /\ info.MaxConn <= 0
  /\ Len(connections) = 10
  /\ tc_closed
  /\ maintPc = "done"

(* ---- C9 ---- *)
\* C9: URL returns only when the URL was published, a fatal error was
\* published or the token fired, and it returns the outcome of the one that
\* happened first (checked for the first call of URL).
C9_FirstOutcome ==
  urlRets # <<>> =>
    LET r == urlRets[1] IN
      /\ r.kind = "url" => r.first = "url"
      /\ r.kind = "err" => (r.val = "InvalidEndpoint" /\ r.first = "fatal")
      /\ r.kind = "ctx" => r.first = "ctx"

(* ---- C10 ---- *)
\* C10: after Open has returned nil on a session that is not cancelled and
\* whose endpoint resolves, the first call of URL returns the public URL
\* with a nil error, whatever dials have failed.
C10_URLAfterOpen ==
  (urlRets # <<>> /\ urlRets[1].opened /\ ~urlRets[1].cancelled /\ info.URL = "valid")
    => (urlRets[1].kind = "url" /\ urlRets[1].val = info.URL)

(* ---- C11 ---- *)
\* slot i is inactive and no connect of it is at its dial
AwaitsDial(i) ==
  /\ i \in LiveSlots
  /\ ~IsActive(connections[i])
  /\ connections[i].mutex # "dialing"

\* a connect of slot i is at its dial, or there is nothing left to dial for
DialedOrOver(i) ==
  /\ i \in LiveSlots
  /\ \/ connections[i].mutex = "dialing"
     \/ IsActive(connections[i])
     \/ tc_closed
     \/ CtxDone

\* C11: while the pool is not closed and the session is not cancelled, every
\* inactive slot is dialed again in the end, however many dials have failed.
C11_Redialed ==
  \A i \in 1..MaxLiveSlots : AwaitsDial(i) ~> DialedOrOver(i)

\* what the code does give: an inactive slot is dialed again as long as the
\* error channel has room for the failure of the dial before
RedialedUnlessSaturated ==
  \A i \in 1..MaxLiveSlots :
    AwaitsDial(i) ~> (DialedOrOver(i) \/ Len(evError) = ErrorChanSize)

(* ---- C12 ---- *)
\* C12: when a copy direction of an active slot has reached end of stream
\* or an error, the slot becomes inactive and its broker socket is closed.
C12_DroppedSlotDeactivated ==
  \A i \in 1..MaxLiveSlots :
    (i \in LiveSlots /\ connections[i].eos /\ IsActive(connections[i]))
      ~> (i \in LiveSlots /\ ~IsActive(connections[i]) /\ connections[i].conn = 0)

(* ---- C13 ---- *)
\* C13: when the dial of a slot to the local target has failed, the slot
\* becomes inactive (and the next pass of the health check dials it again).
C13_LocalDialFailure ==
  \A i \in 1..MaxLiveSlots :
    (i \in LiveSlots /\ connections[i].hpc = "report")
      ~> (i \in LiveSlots /\ ~IsActive(connections[i]))

\* what the code does give: a step of one slot's handleConnection leaves
\* the active flag and the socket of every other slot as they are
OtherSlotsUntouched ==
  [][\A i \in 1..MaxLiveSlots :
       (i \in LiveSlots /\ connections'[i].hpc # connections[i].hpc)
         => \A j \in Slots \ {i} :
               /\ connections'[j].active = connections[j].active
               /\ connections'[j].conn = connections[j].conn]_vars

(* ---- C14 ---- *)
\* C14: for a stream made of a request line, headers with a Host header,
\* the empty line and a body, Transform writes the stream as it is but for
\* the value of the Host header, however the source splits it into reads.
C14_BodyUnchanged ==
  (tx.pc = "done" /\ tx.input.wellformed /\ tx.input.ends = "eof")
    => tx.out = <<"a">> \o CRLF \o <<"h", "n">> \o CRLF \o CRLF \o tx.input.body

\* what the code does give: the request line and the headers are written
\* as claimed; of the body, the bytes the Scanner had not read ahead
HeadRewritten ==
  (tx.pc = "done" /\ tx.input.wellformed /\ tx.input.ends = "eof")
    => \E k \in 0..Len(tx.input.body) :
         tx.out = <<"a">> \o CRLF \o <<"h", "n">> \o CRLF \o CRLF
                    \o SubSeq(tx.input.body, k + 1, Len(tx.input.body))

(* ---- C15 ---- *)
\* C15: on a stream that ends before a request line is read, Transform
\* returns an error and writes nothing.
C15_MalformedStream ==
  (tx.pc = "done" /\ tx.input.bytes = <<>>) => (tx.ret # "nil" /\ tx.out = <<>>)

\* what the code does give: nothing is written
NothingWritten ==
  (tx.pc = "done" /\ tx.input.bytes = <<>>) => tx.out = <<>>

(* ---- C16 ---- *)
\* C16: once the context given to ConnectWithContext is cancelled the
\* context of the tunnel is done and the goroutines that wait for it can go
\* on; Close makes the context of the tunnel done and leaves the caller's
\* context as it is.
C16_ContextLink ==
  /\ []((withParent /\ parentCancelled) =>
          /\ CtxDone
          /\ (maintPc = "wait" /\ ~panicked) => ENABLED MaintainExit
          /\ (openPc = "send" /\ ~panicked) => ENABLED OpenCtxDone)
  /\ [][(t_closed' /\ ~t_closed) => (CtxDone' /\ UNCHANGED parentCancelled)]_vars

\* the caller's context was cancelled, no Close has run, and the health
\* check has returned
C16_Witness ==
  /\ withParent
  /\ parentCancelled
  /\ ~t_closed
  /\ maintPc = "done"

(* ---- C17 ---- *)
\* the caller's context was cancelled after Open, no Close was called, and
\* every goroutine of the session has returned
CancelledAndAtRest ==
  /\ withParent
  /\ parentCancelled
  /\ openRet = "nil"
  /\ \A c \in Closers : closePc[c] = "idle"
  /\ ~panicked
  /\ startPc = "done"
  /\ TasksTerminated

\* C17: when the context given to ConnectWithContext is cancelled after
\* Open, the tunnel ends, without a call of Close, in the state Close
\* leaves: no slot active and a Closed event published.
C17_AutoClose ==
  CancelledAndAtRest => (ActiveSlots = {} /\ hist.closed = 1)

\* what the code does give: the goroutines return and the slots are
\* inactive, but the session is not closed and no Closed event is published
WindsDownUnclosed ==
  CancelledAndAtRest =>
    (ActiveSlots = {} /\ maintPc = "done" /\ ~t_closed /\ ~tc_closed /\ hist.closed = 0)

(* ---- C18 ---- *)
\* C18: for every exchange proxied through a slot (the exchanges of the
\* model start with a well-formed request line) a request event is
\* published on the Request channel, unless the channel is full.  Nothing
\* of the model reads the channel, so the events published stay in it.
C18_RequestEvents ==
  \A i \in Slots :
    connections[i].eos =>
      (Len(evRequest) >= 1 \/ Len(evRequest) = RequestChanSize)

\* what the code does give: the Request channel stays empty
RequestChannelEmpty == evRequest = <<>>

(* ---- C19 ---- *)
\* C19: NewTunnel always succeeds, and the options of the session have the
\* port of the call, the host given or "https://localtunnel.me" when it is
\* empty or the options are nil, the local host given or "localhost" when
\* it is empty, and the subdomain and the TLS flag that were given.
C19_OptionDefaults ==
  nt.pc = "done" =>
    /\ nt.err = "nil"
    /\ nt.options.present
    /\ nt.options.Port = nt.port
    /\ nt.options.Host =
         (IF ~nt.given.present \/ nt.given.Host = "" THEN "https://localtunnel.me"
                                                      ELSE nt.given.Host)
    /\ nt.options.LocalHost =
         (IF ~nt.given.present \/ nt.given.LocalHost = "" THEN "localhost"
                                                           ELSE nt.given.LocalHost)
    /\ nt.options.Subdomain = (IF nt.given.present THEN nt.given.Subdomain ELSE "")
    /\ nt.options.LocalHTTPS = (nt.given.present /\ nt.given.LocalHTTPS)

\* NewTunnel has returned for options that name another port, a host and
\* no local host
C19_Witness ==
  /\ nt.pc = "done"
  /\ nt.given.present
  /\ nt.given.Port # nt.port
  /\ nt.given.Host # ""
  /\ nt.given.LocalHost = ""
  /\ nt.options.LocalHost = "localhost"

(* ---- C20 ---- *)
\* TunnelCluster.Close has set closed and has finished its loop over the
\* slots
PoolClosed == tc_closed /\ tc_mutex # "close"

\* C20: once the pool is closed, no slot is active and no slot is being
\* dialed.
C20_ClosedPoolInert ==
  PoolClosed =>
    \A i \in Slots : ~connections[i].active /\ connections[i].mutex # "dialing"

\* what the code does give: a health-check pass never scans the slots of a
\* closed pool
ClosedPoolNotScanned == tc_closed => maintPc # "scan"

(* ---- C21 ---- *)
\* C21: the closed state is never left: an Open that comes after Close was
\* called creates and starts no pool, and no slot is created or dialed.
C21_ClosedIsFinal ==
  hist.lateOpen => (~t_cluster /\ startPc = "none" /\ connections = <<>>)

\* the dialing part of C21: no slot of a pool that was opened after Close
\* gets connected to the broker
LateOpenDialsNothing == hist.lateOpen => ActiveSlots = {}

(* ---- C22 ---- *)
\* C22: no goroutine of a slot (handleConnection, proxyConnection and its
\* copies) attempts an operation on the broker socket of the slot after
\* close() has set it to nil.
C22_NoUseAfterClose == ~panicked

(* ---- C23 ---- *)
\* the connect that holds the lock of slot i is inside its dial, or is
\* reporting the failure of its dial
ConnectBusy(i) == connections[i].mutex \in {"dialing", "report"}

\* checkConnections is at slot i of its loop, about to call isActive
SweepAt(i) == maintPc = "scan" /\ maintIdx = i

\* C23: a health-check pass is never held at a slot whose connect is
\* waiting on its dial or on the report of its failure.
C23_SweepNotHeld == \A i \in Slots : ConnectBusy(i) => ~SweepAt(i)

\* the other slots of C23: no inactive slot waits behind the slot the pass
\* is held at
NoSlotWaitsBehind ==
  \A i \in Slots : \A j \in Slots :
    (ConnectBusy(i) /\ SweepAt(i) /\ j > i) => IsActive(connections[j])

(* ---- C24 ---- *)
\* C24: a task that reports an error of its slot (connect after a failed
\* broker dial, handleConnection after a failed local dial) is never
\* blocked by a full error channel: it can always take its next step.
C24_ReportNeverBlocks ==
  \A i \in LiveSlots :
    /\ (connections[i].mutex = "report" /\ ~panicked) =>
          ENABLED (ConnectReportError(i) \/ ConnectReportCtxDone(i))
    /\ (connections[i].hpc = "report" /\ ~panicked) =>
          ENABLED (HandlerReportError(i) \/ HandlerReportCtxDone(i))

\* what the code does give: a report is blocked only by a full error
\* channel, and only while the token has not fired
ReportBlockedOnlyWhenFull ==
  \A i \in LiveSlots :
    (Len(evError) < ErrorChanSize \/ CtxDone) =>
      /\ (connections[i].mutex = "report" /\ ~panicked) =>
            ENABLED (ConnectReportError(i) \/ ConnectReportCtxDone(i))
      /\ (connections[i].hpc = "report" /\ ~panicked) =>
            ENABLED (HandlerReportError(i) \/ HandlerReportCtxDone(i))

(* ---- C25 ---- *)
\* C25: when the token of the session has fired while the copies of a slot
\* are running, those copies terminate: none stays blocked for ever.
C25_CopiesTerminate ==
  \A i \in 1..MaxLiveSlots :
    (i \in LiveSlots /\ CtxDone /\ connections[i].prun > 0)
      ~> (i \in LiveSlots /\ connections[i].prun = 0)

\* what the code does give: the copies end unless the process has ended in
\* a panic; no read blocks them for ever
CopiesEndOrCrash ==
  \A i \in 1..MaxLiveSlots :
    (i \in LiveSlots /\ CtxDone /\ connections[i].prun > 0)
      ~> ((i \in LiveSlots /\ connections[i].prun = 0) \/ panicked)

(* ---- C26 ---- *)
\* C26: Transform is applied at most once to one broker socket, from the
\* dial that opened it to its close.
C26_TransformOnce == \A i \in Slots : connections[i].txs <= 1

(* ---- C27 ---- *)
\* the exchanges of slot s that hold a local socket: the proxyConnection
\* goroutines launched or running, each with its own localConn
LocalSockets(s) == s.pnew + s.prun

\* C27: a slot has at most one local socket open and at most one pair of
\* copy loops running at any time.
C27_OneExchange ==
  \A i \in Slots : LocalSockets(connections[i]) <= 1 /\ connections[i].prun <= 1

(* ---- C28 ---- *)
\* the connect of slot i has dialed and goes on to the step after
ConnectLeaves(i, from, to) ==
  connections[i].mutex = from /\ connections'[i].mutex = to

\* connect has returned from a successful dial: the slot is active, holds
\* the socket, and one handleConnection was started for it
ConnectSucceeded(i) ==
  /\ connections'[i].active
  /\ connections'[i].conn = 1
  /\ ProxyLoops(connections'[i]) = ProxyLoops(connections[i]) + 1
  /\ connections'[i].hpc = "top"
  /\ evError' = evError

\* the dial has failed, or connect has returned after it: the slot is
\* inactive, without socket, and no handleConnection was started
ConnectFailed(i) ==
  /\ ~connections'[i].active
  /\ connections'[i].conn = 0
  /\ connections'[i].hpc = connections[i].hpc

\* C28: a connect on an inactive slot ends in one of two ways.  After a
\* successful dial the slot is active with the new socket and one proxy loop
\* was started; after a failed dial the slot is inactive, has no socket, no
\* proxy loop was started, and one error was emitted unless the token has
\* fired.  A slot whose dial failed is never active.
C28_ConnectOutcomes ==
  /\ [](\A i \in Slots : connections[i].mutex \in {"dialing", "report"} =>
            ~connections[i].active /\ connections[i].conn = 0)
  /\ [][\A i \in Slots :
          /\ ConnectLeaves(i, "dialing", "free") => ConnectSucceeded(i)
          /\ ConnectLeaves(i, "dialing", "report") =>
                ConnectFailed(i) /\ evError' = evError
          /\ ConnectLeaves(i, "report", "free") =>
                /\ ConnectFailed(i)
                /\ \/ evError' = Append(evError, "DialFailed")
                   \/ CtxDone /\ evError' = evError
          /\ connections[i].mutex = "dialing" =>
                connections'[i].mutex \in {"dialing", "report", "free"}
          /\ connections[i].mutex = "report" =>
                connections'[i].mutex \in {"report", "free"}]_vars

\* a connect has failed, has queued its error and has returned: the session
\* is running, and the slot, which no proxy loop ever served, is inactive
C28_Witness ==
  /\ ~CtxDone
  /\ ~t_closed
  /\ ~tc_closed
  /\ Len(connections) >= 1
  /\ ~connections[1].active
  /\ connections[1].conn = 0
  /\ connections[1].mutex = "free"
  /\ connections[1].hpc = "none"
  /\ evError = <<"DialFailed">>

(* ---- C29 ---- *)
\* a connect goroutine of slot i takes the slot lock and finds the slot
\* active
ConnectOnActive(i) ==
  /\ connections[i].active
  /\ connections'[i].connects < connections[i].connects

\* C29: a connect on an active slot changes nothing: no dial, no event, no
\* proxy loop, the socket and the active flag as they were; and a socket is
\* only ever installed in a slot that holds none.
C29_ConnectNoop ==
  [][\A i \in Slots :
       /\ ConnectOnActive(i) =>
             /\ connections'[i] = [connections[i] EXCEPT !.connects = @ - 1]
             /\ UNCHANGED <<evError, evURL, evClose, evRequest, failuresLeft>>
       /\ (connections'[i].conn = 1 /\ connections'[i].active
             /\ ~(connections[i].conn = 1 /\ connections[i].active)) =>
             /\ connections[i].conn = 0
             /\ ~connections[i].active
             /\ connections[i].mutex = "dialing"]_vars

\* a connect has found its slot active and has returned; the slot is still
\* active with its socket
C29_Witness ==
  /\ hist.skipped
  /\ Len(connections) >= 1
  /\ connections[1].active
  /\ connections[1].conn = 1
  /\ connections[1].connects = 0
  /\ connections[1].mutex = "free"

(* ---- C30 ---- *)
\* C30: a slot that close() has left inactive holds no socket: neither the
\* broker socket nor a local socket of the slot is open.
C30_CloseReleasesBoth ==
  \A i \in Slots :
    (~IsActive(connections[i]) /\ connections[i].mutex = "free") =>
      (connections[i].conn = 0 /\ LocalSockets(connections[i]) = 0)

\* what the code does give: close() is idempotent and safe on a slot that
\* never connected; after it the slot is inactive and holds no broker socket
SlotCloseIdempotent ==
  \A i \in Slots :
    LET s == CloseSlotBody(connections[i])
    IN  /\ ~IsActive(s)
        /\ s.conn = 0
        /\ CloseSlotBody(s) = s
        /\ (~IsActive(connections[i]) => s = connections[i])

(* ---- C31 ---- *)
\* the call c of TunnelCluster.Close has the pool lock and leaves the test
\* of tc.closed
CloseTests(c) == closePc[c] = "cluster" /\ closePc'[c] # "cluster"

\* C31: TunnelCluster.Close is idempotent and safe on a pool that was never
\* started.  The first call marks the pool closed and calls close() on every
\* slot the pool holds, one after the other; a later call changes nothing;
\* a closed pool stays closed.
C31_PoolCloseIdempotent ==
  /\ [][tc_closed => tc_closed']_vars
  /\ [][tc_mutex = "close" => Len(connections') = Len(connections)]_vars
  /\ [][\A c \in Closers :
          /\ (CloseTests(c) /\ tc_closed) =>
                /\ closePc'[c] \in {"done", "publish"}
                /\ UNCHANGED <<tc_closed, tc_mutex, connections, closeIdx,
                               evURL, evError, evClose, ctxCancelled, panicked>>
          /\ (CloseTests(c) /\ ~tc_closed) =>
                /\ tc_closed'
                /\ closePc'[c] = "slots"
                /\ closeIdx' = 1
                /\ connections' = connections
          /\ (closePc[c] = "slots" /\ closeIdx' # closeIdx) =>
                /\ closeIdx <= Len(connections)
                /\ closeIdx' = closeIdx + 1
                /\ connections' = [connections EXCEPT ![closeIdx] = CloseSlotBody(@)]
                /\ ~connections'[closeIdx].active
                /\ connections'[closeIdx].conn = 0
          /\ (closePc[c] = "slots" /\ closePc'[c] # "slots") =>
                /\ closeIdx = Len(connections) + 1
                /\ connections' = connections
                /\ tc_closed']_vars

\* every caller has called Close on a pool that was never started, and
\* every call has returned
C31_Witness ==
  /\ startPc = "none"
  /\ connections = <<>>
  /\ tc_closed
  /\ tc_mutex = "free"
  /\ ~panicked
  /\ \A c \in Closers : closePc[c] = "done"

(* ---- C32 ---- *)
\* checkConnections looks at the slot its loop is at
SweepLooks == maintPc = "scan" /\ maintIdx' # maintIdx

\* C32: a health-check pass on a closed pool looks at no slot and changes
\* nothing; a pass on an open pool goes through every slot, launches one
\* connect for each slot that is not active and none for an active slot.
C32_HealthCheck ==
  /\ [](tc_closed => maintPc # "scan")
  /\ [][(maintPc = "wait" /\ maintPc' = "scan") =>
          (~tc_closed /\ maintIdx' = 1 /\ connections' = connections)]_vars
  /\ [][SweepLooks =>
          /\ maintIdx <= Len(connections)
          /\ maintIdx' = maintIdx + 1
          /\ Len(connections') = Len(connections)
          /\ \A j \in Slots : j # maintIdx => connections'[j] = connections[j]
          /\ IF IsActive(connections[maintIdx])
             THEN connections'[maintIdx] = connections[maintIdx]
             ELSE connections'[maintIdx] =
                    [connections[maintIdx] EXCEPT
                       !.connects = Min(@ + 1, env.pending)]]_vars
  /\ [][(maintPc = "scan" /\ maintPc' # "scan") =>
          (maintIdx = Len(connections) + 1 /\ connections' = connections)]_vars

\* a pass has found slot 1 inactive and has launched a connect for it, next
\* to the one Start launched
C32_Witness ==
  /\ maintPc = "scan"
  /\ maintIdx = 2
  /\ ~tc_closed
  /\ ~IsActive(connections[1])
  /\ connections[1].connects > 1

(* ---- C33 ---- *)
\* C33: when Transform has failed with an I/O error on a slot and the
\* exchange is over, an error event was published and the slot is inactive.
C33_TransformErrorSurfaced ==
  \A i \in Slots :
    (connections[i].txerr /\ LocalSockets(connections[i]) = 0) =>
      (evError # <<>> /\ ~IsActive(connections[i]))

\* what the code does give: Transform returns the error of a failed read
ReadErrorReturned ==
  (tx.pc = "done" /\ tx.input.ends = "err") => tx.ret = "err"

(* ---- C34 ---- *)
\* the request a stream of HeaderStreams was made of
RequestOf(in) ==
  CHOOSE r \in Requests : RequestBytes(r) = in.bytes /\ r.body = in.body

\* the head of request r as C34 has it written: every line as it is and
\* CRLF-terminated, a Host header with the replacement, then the empty line
Rewritten(r) ==
  Lines([k \in 1..Len(r.lines) |->
           IF k > 1 /\ r.lines[k][1] = "h" THEN <<"h", "n">> ELSE r.lines[k]],
        CRLF)
    \o (IF r.terminated THEN CRLF ELSE <<>>)

\* the sink holds the rewritten head of r and then bytes of the body as
\* they came
WrittenAs(r) ==
  \E k \in 0..Len(r.body) :
    tx.out = Rewritten(r) \o SubSeq(r.body, k + 1, Len(r.body))

\* C34: Transform writes the request line and every header line unchanged
\* and CRLF-terminated, but a Host header with the replacement host; after
\* the empty line nothing is rewritten.
C34_HeadersRewritten == tx.pc = "done" => WrittenAs(RequestOf(tx.input))

\* what the code does give: the same for requests whose lines are all
\* shorter than the buffer of the Scanner
ShortLinesRewritten ==
  LET r == RequestOf(tx.input)
  IN  (tx.pc = "done" /\ \A k \in 1..Len(r.lines) : r.lines[k] # <<"A">>)
        => WrittenAs(r)

(* ---- C35 ---- *)
\* C35: whenever the lock of a slot is not held, the slot is active exactly
\* when it holds a broker socket.
C35_ActiveIffConn ==
  \A i \in LiveSlots :
    connections[i].mutex = "free"
      => (connections[i].active <=> connections[i].conn = 1)

\* slot 1 has connected, served an exchange and been closed by the exit of
\* its proxy loop
C35_Witness ==
  /\ 1 \in LiveSlots
  /\ connections[1].mutex = "free" /\ connections[1].hpc = "none"
  /\ connections[1].eos /\ ~connections[1].active /\ connections[1].conn = 0

(* ---- C36 ---- *)
\* C36: at any time at most one proxy loop (handleConnection) runs for a
\* slot.
C36_OneProxyLoop == \A i \in LiveSlots : ProxyLoops(connections[i]) <= 1

\* what C36 draws from it, violated too: the deferred close() of a proxy
\* loop never closes a socket that a later connect installed
ExitSparesLaterSocket ==
  [][\A i \in LiveSlots :
       connections'[i].stale < connections[i].stale
         => ~(connections[i].conn = 1 /\ connections'[i].conn = 0)]_vars

(* ---- C37 ---- *)
\* the calls of URL that have returned the public URL
URLReturns == {k \in 1..Len(urlRets) : urlRets[k].kind = "url"}

\* a call of URL returns in this step
URLReturned == Len(urlRets') = Len(urlRets) + 1

URLBlockedAfterFirst ==
  /\ URLWaiting /\ URLReturns # {} /\ evError = <<>> /\ ~CtxDone

(* ---- C38 ---- *)
\* the locks in the order of C38
SessionLock == 1
PoolLock == 2
SlotLock == 3

\* the locks caller c of Close holds
CloserHolds(c) ==
  (IF t_mutex = c THEN {SessionLock} ELSE {})
    \cup (IF tc_mutex = "close" /\ closePc[c] = "slots" THEN {PoolLock} ELSE {})

\* the lock caller c of Close asks for next, 0 for none
CloserWants(c) ==
  CASE closePc[c] = "lock" -> SessionLock
    [] closePc[c] = "cluster" -> PoolLock
    [] closePc[c] = "slots" /\ closeIdx <= Len(connections) -> SlotLock
    [] OTHER -> 0

\* the same for the goroutine of maintainConnections
HealthHolds == IF tc_mutex = "health" THEN {PoolLock} ELSE {}

HealthWants ==
  CASE maintPc = "wait" -> PoolLock
    [] maintPc = "scan" /\ maintIdx <= Len(connections) -> SlotLock
    [] OTHER -> 0

\* a connect holds the lock of its slot up to its return and asks for no
\* lock meanwhile; Start, a waiting connect and the deferred close() of a
\* proxy loop hold no lock when they ask for one
LockOrder ==
  /\ \A c \in Closers :
       CloserWants(c) # 0 => \A l \in CloserHolds(c) : l < CloserWants(c)
  /\ HealthWants # 0 => \A l \in HealthHolds : l < HealthWants

\* tc.mutex is held by one caller of TunnelCluster.Close in its loop, by
\* checkConnections in its loop, or by nobody
PoolLockHolder ==
  /\ tc_mutex = "close" <=> \E c \in Closers : closePc[c] = "slots"
  /\ Cardinality({c \in Closers : closePc[c] = "slots"}) <= 1
  /\ tc_mutex = "health" <=> maintPc = "scan"
  /\ t_mutex # 0 => closePc[t_mutex] \in {"cluster", "slots", "publish"}

\* C38: locks are taken in the order session, pool, slot: nobody asks for
\* a lock while holding that lock or a later one; the slots of the pool are
\* appended to and walked only by the holder of the pool lock; so no
\* cyclic wait among the locks is reachable.
C38_LockOrder ==
  /\ [](LockOrder /\ PoolLockHolder)
  /\ [][/\ Len(connections') # Len(connections) => tc_mutex = "free"
        /\ closeIdx' # closeIdx => tc_mutex' = "close"
        /\ maintIdx' # maintIdx => tc_mutex' = "health"
        /\ \A i \in LiveSlots :
             (ConnectBusy(i) /\ connections'[i].mutex # connections[i].mutex)
               => (tc_mutex' = tc_mutex /\ t_mutex' = t_mutex)]_vars

\* a Close holds the session lock and the pool lock and waits for the lock
\* of a slot that a connect holds
C38_Witness ==
  /\ t_mutex # 0
  /\ closePc[t_mutex] = "slots"
  /\ closeIdx <= Len(connections)
  /\ connections[closeIdx].mutex # "free"

====
